---- MODULE Spec2Model ----
(***************************************************************************)
(* Model of the transcript post-processing core of yt-transcriber:         *)
(* yt_diarizer/transcriber.py (format_timestamp, smooth_speaker_labels,    *)
(* build_diarized_transcript_lines_from_data) and                          *)
(* yt_diarizer/speaker_namer.py (extract_speaker_score,                    *)
(* collect_scored_segments_by_speaker, replace_speakers_in_text,           *)
(* replace_speakers_in_json).                                              *)
(*                                                                         *)
(* JSON values are tagged records; a Python dict is a TLA+ function whose  *)
(* domain is its set of keys (an absent key is a key outside the domain).  *)
(* Numbers are fixed point: 1.0 is 10000 ticks, so one tick is 0.1 ms.     *)
(* A call's outcome is a record whose exc field names the exception the    *)
(* call ended with ("none" when it returned).                              *)
(***************************************************************************)
EXTENDS Integers, Sequences, FiniteSets, TLC

VARIABLES
    data,     \* the Transcript Document held by the caller (mutated in place)
    data0,    \* the document as it was before the operation was called
    transcript, \* the transcript text held by the caller
    op,       \* the operation that was called ("" before any call)
    arg,      \* its second argument (max_short, the mapping, ...)
    ret,      \* its outcome: [exc |-> ..., value |-> ...]
    session,  \* the interactive relabeling session (speaker_namer.main)
    run       \* the outer stage of the entry point (main.main)

vars == <<data, data0, transcript, op, arg, ret, session, run>>

(***************************************************************************)
(* Bounds of the model and units.                                          *)
(***************************************************************************)
MaxSegs == 4          \* longest segment list of a generated document
MaxTokens == 4        \* longest transcript text, in tokens
MaxFields == 3        \* most optional score fields on one segment
MaxWords == 2         \* longest words list of a segment
MaxNameTokens == 4    \* longest name an operator types, in tokens
MaxHours == 100       \* most whole hours in a number of seconds to format
MaxChain == 6         \* longest list of the chain documents
MaxScored == 3        \* most scored segments of one speaker
MaxLines == 3         \* most plain-text lines of one speaker
TicksPerMs == 10      \* ticks per millisecond (1.0 second is 10000 ticks)
TicksPerSecond == 1000 * TicksPerMs

(***************************************************************************)
(* JSON values and the Python primitives the code applies to them.         *)
(***************************************************************************)
Null == [t |-> "null"]
Num(n) == [t |-> "num", n |-> n]
Str(s) == [t |-> "str", s |-> s]
Huge == [t |-> "huge"]            \* an integer literal beyond the float range
List(v) == [t |-> "list", v |-> v]
\* floats that the tick counter cannot hold; they stand only as arguments of
\* format_timestamp: h whole hours plus n ticks (n below an hour), the
\* infinities and NaN (json.load reads Infinity, -Infinity and NaN)
Long(h, n) == [t |-> "long", h |-> h, n |-> n]
Inf == [t |-> "inf"]
NegInf == [t |-> "neginf"]
NaN == [t |-> "nan"]
Dict(v) == [t |-> "dict", v |-> v]

EmptyDict == [k \in {} |-> Null]

IsStr(v) == v.t = "str"
IsList(v) == v.t = "list"
IsDict(v) == v.t = "dict"

\* d.get(k) and d.get(k, default) on a dict d
Get(d, k) == IF k \in DOMAIN d THEN d[k] ELSE Null
GetDefault(d, k, default) == IF k \in DOMAIN d THEN d[k] ELSE default

\* d[k] = v
SetKey(d, k, v) == [x \in (DOMAIN d) \cup {k} |-> IF x = k THEN v ELSE d[x]]

\* Python truthiness of a JSON value
Truthy(v) ==
    CASE v.t = "null" -> FALSE
      [] v.t = "num" -> v.n # 0
      [] v.t = "str" -> v.s # ""
      [] v.t = "list" -> Len(v.v) > 0
      [] v.t = "dict" -> DOMAIN v.v # {}
      [] OTHER -> TRUE

\* the strings float() can parse, with their value in ticks
NumericStrings == ("0.3" :> 3000) @@ ("2.0" :> 20000)

\* float(v): the number, or the exception float() raises
Float(v) ==
    CASE v.t = "num" -> [exc |-> "none", n |-> v.n]
      [] v.t = "str" ->
            IF v.s \in DOMAIN NumericStrings
            THEN [exc |-> "none", n |-> NumericStrings[v.s]]
            ELSE [exc |-> "ValueError", n |-> 0]
      [] v.t = "huge" -> [exc |-> "OverflowError", n |-> 0]
      [] OTHER -> [exc |-> "TypeError", n |-> 0]

\* str.strip() of the text strings the documents carry
Strip(s) ==
    CASE s = " da " -> "da"
      [] s = "hello " -> "hello"
      [] s = " " -> ""
      [] OTHER -> s

Max(a, b) == IF a >= b THEN a ELSE b

\* a local variable: Body applied to the value of v, which is computed once
Local(v, Body(_)) == CHOOSE out \in {Body(x) : x \in {v}} : TRUE

(***************************************************************************)
(* transcriber.format_timestamp                                            *)
(***************************************************************************)
\* int(round(x * 1000)) for x given in ticks: round half to even
RoundMs(n) ==
    LET q == n \div TicksPerMs
        r == n % TicksPerMs
    IN  IF 2 * r < TicksPerMs THEN q
        ELSE IF 2 * r > TicksPerMs THEN q + 1
        ELSE IF q % 2 = 0 THEN q ELSE q + 1

DigitChar(d) == SubSeq(<<"0", "1", "2", "3", "4", "5", "6", "7", "8", "9">>, d + 1, d + 1)

RECURSIVE Digits(_)
Digits(n) == IF n < 10 THEN DigitChar(n) ELSE Digits(n \div 10) \o DigitChar(n % 10)

RECURSIVE PadLeft(_, _)
PadLeft(s, width) == IF Len(s) >= width THEN s ELSE PadLeft(<<"0">> \o s, width)

\* f"{n:0{width}d}"
ZeroPadded(n, width) == PadLeft(Digits(n), width)

\* int(round(float(seconds) * 1000)): whole hours h and milliseconds ms, or the
\* exception raised (float() of an integer beyond the float range and round()
\* of an infinity raise OverflowError, round() of NaN raises ValueError)
Millis(seconds) ==
    CASE seconds.t = "long" -> [exc |-> "none", h |-> seconds.h, ms |-> RoundMs(seconds.n)]
      [] seconds.t \in {"inf", "neginf"} -> [exc |-> "OverflowError", h |-> 0, ms |-> 0]
      [] seconds.t = "nan" -> [exc |-> "ValueError", h |-> 0, ms |-> 0]
      [] OTHER ->
            LET f == Float(seconds)
            IN  [exc |-> f.exc, h |-> 0, ms |-> IF f.exc = "none" THEN RoundMs(f.n) ELSE 0]

format_timestamp(seconds) ==
    IF seconds = Null
    THEN [exc |-> "none",
          value |-> <<"0","0",":","0","0",":","0","0",".","0","0","0">>]
    ELSE
    LET f == Millis(seconds)
    IN  IF f.exc = "OverflowError"
        THEN [exc |-> "OverflowError", value |-> <<>>]
        ELSE
        LET raw == IF f.exc = "none" THEN f.ms ELSE 0
            total_ms == IF raw < 0 THEN 0 ELSE raw
            hours == (IF f.exc = "none" THEN f.h ELSE 0) + total_ms \div (3600 * 1000)
            rem1 == total_ms % (3600 * 1000)
            minutes == rem1 \div (60 * 1000)
            rem2 == rem1 % (60 * 1000)
            secs == rem2 \div 1000
            ms == rem2 % 1000
        IN  [exc |-> "none",
             value |-> ZeroPadded(hours, 2) \o <<":">> \o ZeroPadded(minutes, 2)
                       \o <<":">> \o ZeroPadded(secs, 2) \o <<".">>
                       \o ZeroPadded(ms, 3)]

(***************************************************************************)
(* transcriber.smooth_speaker_labels                                       *)
(***************************************************************************)
DefaultMaxShort == 7000     \* max_short = 0.7

\* key=lambda s: float(s.get("start", 0.0))
SortKey(s) == Float(GetDefault(s, "start", Num(0)))

\* mutant of the sort: elements with the same key come out in reverse order
SortedPosTiesReversed(segs, j) ==
    1 + Cardinality({k \in 1..Len(segs) :
            \/ SortKey(segs[k]).n < SortKey(segs[j]).n
            \/ SortKey(segs[k]).n = SortKey(segs[j]).n /\ k > j})

\* list.sort(key=...) is stable: element j goes after the elements with a
\* smaller key and after the earlier elements with the same key
SortedPos(segs, j) ==
    1 + Cardinality({k \in 1..Len(segs) :
            \/ SortKey(segs[k]).n < SortKey(segs[j]).n
            \/ SortKey(segs[k]).n = SortKey(segs[j]).n /\ k < j})

StableSorted(segs) ==
    [i \in 1..Len(segs) |-> segs[CHOOSE j \in 1..Len(segs) : SortedPos(segs, j) = i]]

\* the exception of the first key computation that fails, else "none"
SortFailure(segs) ==
    LET bad == {j \in 1..Len(segs) : SortKey(segs[j]).exc # "none"}
    IN  IF bad = {} THEN "none"
        ELSE SortKey(segs[CHOOSE j \in bad : \A k \in bad : j <= k]).exc

\* mutants of the duration guard: a strict bound, and the comparison inverted
TooLongStrict(duration, max_short) == duration >= max_short
TooLongInverted(duration, max_short) == duration < max_short

\* whether the duration guard skips index i (duration > max_short: continue)
TooLong(duration, max_short) == duration > max_short

\* cur_speaker is not None and cur_speaker != prev_speaker
OwnTagDiffers(cur_speaker, prev_speaker) ==
    cur_speaker # Null /\ cur_speaker # prev_speaker

\* mutant of the neighbour test: the left neighbour alone decides
NeighboursAgreeAlways(prev_speaker, next_speaker) == TRUE

\* prev_speaker == next_speaker
NeighboursAgree(prev_speaker, next_speaker) == prev_speaker = next_speaker

\* one iteration of the loop body at (1-based) index i
SmoothStep(segs, i, max_short) ==
    LET cur == segs[i]
        prev_seg == segs[i - 1]
        next_seg == segs[i + 1]
        fs == Float(GetDefault(cur, "start", Num(0)))
        fe == IF fs.exc = "none" THEN Float(GetDefault(cur, "end", Num(fs.n))) ELSE fs
        cur_speaker == Get(cur, "speaker")
        prev_speaker == Get(prev_seg, "speaker")
        next_speaker == Get(next_seg, "speaker")
    IN  IF fe.exc = "OverflowError" THEN [exc |-> "OverflowError", segs |-> segs]
        ELSE IF fe.exc # "none" THEN [exc |-> "none", segs |-> segs]
        ELSE IF TooLong(Max(0, fe.n - fs.n), max_short) THEN [exc |-> "none", segs |-> segs]
        ELSE IF ~Truthy(prev_speaker) \/ ~Truthy(next_speaker)
             THEN [exc |-> "none", segs |-> segs]
        ELSE IF NeighboursAgree(prev_speaker, next_speaker)
                /\ OwnTagDiffers(cur_speaker, prev_speaker)
             THEN [exc |-> "none",
                   segs |-> [segs EXCEPT ![i] = SetKey(cur, "speaker", prev_speaker)]]
        ELSE [exc |-> "none", segs |-> segs]

\* for i in range(1, len(segments) - 1), from index i on
RECURSIVE SmoothLoop(_, _, _)
SmoothLoop(segs, i, max_short) ==
    IF i > Len(segs) - 1 THEN [exc |-> "none", segs |-> segs]
    ELSE LET Rest(r) == IF r.exc # "none" THEN r ELSE SmoothLoop(r.segs, i + 1, max_short)
         IN  Local(SmoothStep(segs, i, max_short), Rest)

\* mutant of the early return: len(segments) < 2
MinSmoothLenOffByOne == 3 - 1

\* the early return of smooth_speaker_labels
MinSmoothLen == 3

\* the list after the call and the exception the call ended with
smooth_speaker_labels(segments, max_short) ==
    IF Len(segments) < MinSmoothLen THEN [exc |-> "none", segs |-> segments]
    ELSE IF SortFailure(segments) # "none"
         THEN [exc |-> SortFailure(segments), segs |-> segments]
    ELSE LET Pass(sorted) == SmoothLoop(sorted, 2, max_short)
         IN  Local(StableSorted(segments), Pass)

(***************************************************************************)
(* transcriber.build_diarized_transcript_lines_from_data                   *)
(***************************************************************************)
\* speaker = seg.get("speaker") or "UNKNOWN"
ShownSpeaker(seg) ==
    IF Truthy(Get(seg, "speaker")) THEN Get(seg, "speaker") ELSE Str("UNKNOWN")

\* one rendered line: the slots of "[{start_ts} --> {end_ts}] {speaker}: {text}"
RenderLine(seg) ==
    LET text == Get(seg, "text")
        start_ts == format_timestamp(Get(seg, "start"))
        end_ts == format_timestamp(Get(seg, "end"))
    IN  IF Truthy(text) /\ ~IsStr(text) THEN [exc |-> "AttributeError", line |-> <<>>]
        ELSE IF start_ts.exc # "none" THEN [exc |-> start_ts.exc, line |-> <<>>]
        ELSE IF end_ts.exc # "none" THEN [exc |-> end_ts.exc, line |-> <<>>]
        ELSE [exc |-> "none",
              line |-> [start_ts |-> start_ts.value,
                        end_ts |-> end_ts.value,
                        speaker |-> ShownSpeaker(seg),
                        text |-> IF Truthy(text) THEN Strip(text.s) ELSE ""]]

RECURSIVE RenderLines(_, _)
RenderLines(segs, lines) ==
    IF Len(segs) = 0 THEN [exc |-> "none", lines |-> lines]
    ELSE LET Rest(r) == IF r.exc # "none" THEN [exc |-> r.exc, lines |-> lines]
                        ELSE RenderLines(Tail(segs), Append(lines, r.line))
         IN  Local(RenderLine(Head(segs)), Rest)

\* segments = data.get("segments") or []; if not a list: []
RenderSegments(d) ==
    LET s == Get(d, "segments")
    IN  IF Truthy(s) /\ IsList(s) THEN s.v ELSE <<>>

\* mutant: the lines are built without the smoothing pass
build_lines_without_smoothing(d) ==
    LET Out(r) == [exc |-> r.exc, lines |-> IF r.exc = "none" THEN r.lines ELSE <<>>,
                   data |-> d]
    IN  Local(RenderLines(RenderSegments(d), <<>>), Out)

\* the document after the call (its list is sorted and smoothed in place), the
\* returned lines and the exception the call ended with
build_diarized_transcript_lines_from_data(d) ==
    LET Lines(sm) ==
            LET after == IF Truthy(Get(d, "segments")) /\ IsList(Get(d, "segments"))
                         THEN SetKey(d, "segments", List(sm.segs)) ELSE d
                Out(r) == [exc |-> r.exc,
                           lines |-> IF r.exc = "none" THEN r.lines ELSE <<>>,
                           data |-> after]
            IN  IF sm.exc # "none" THEN [exc |-> sm.exc, lines |-> <<>>, data |-> after]
                ELSE Local(RenderLines(sm.segs, <<>>), Out)
    IN  Local(smooth_speaker_labels(RenderSegments(d), DefaultMaxShort), Lines)

(***************************************************************************)
(* speaker_namer._safe_float and speaker_namer.extract_speaker_score       *)
(***************************************************************************)
\* _safe_float: the number, None (some = FALSE) after TypeError or ValueError;
\* an OverflowError of float() is not caught
safe_float(value) ==
    LET f == Float(value)
    IN  IF f.exc = "none" THEN [exc |-> "none", some |-> TRUE, n |-> f.n]
        ELSE IF f.exc \in {"TypeError", "ValueError"}
             THEN [exc |-> "none", some |-> FALSE, n |-> 0]
        ELSE [exc |-> f.exc, some |-> FALSE, n |-> 0]

\* the first of the keys whose value _safe_float turns into a number
RECURSIVE FirstNumeric(_, _)
FirstNumeric(d, keys) ==
    IF Len(keys) = 0 THEN [exc |-> "none", some |-> FALSE, n |-> 0]
    ELSE LET p == safe_float(Get(d, Head(keys)))
         IN  IF p.exc # "none" \/ p.some THEN p ELSE FirstNumeric(d, Tail(keys))

\* for key in ("score", "confidence")
SegmentScoreKeys == <<"score", "confidence">>

\* the keys tried on each word
WordScoreKeys == <<"speaker_prob", "prob", "probability", "score", "confidence">>

\* the scores list built by the loop over words
RECURSIVE WordScores(_, _, _)
WordScores(words, speaker, scores) ==
    IF Len(words) = 0 THEN [exc |-> "none", scores |-> scores]
    ELSE LET word == Head(words)
         IN  IF ~IsDict(word) THEN WordScores(Tail(words), speaker, scores)
             ELSE IF Get(word.v, "speaker") # Null /\ Get(word.v, "speaker") # speaker
                  THEN WordScores(Tail(words), speaker, scores)
             ELSE LET word_prob == FirstNumeric(word.v, WordScoreKeys)
                  IN  IF word_prob.exc # "none"
                      THEN [exc |-> word_prob.exc, scores |-> scores]
                      ELSE WordScores(Tail(words), speaker,
                                      IF word_prob.some THEN Append(scores, word_prob.n)
                                      ELSE scores)

RECURSIVE Sum(_)
Sum(seq) == IF Len(seq) = 0 THEN 0 ELSE Head(seq) + Sum(Tail(seq))

\* mutant of the mean: the sum is not divided
MeanAsSum(scores) == Sum(scores)

\* sum(scores) / len(scores), to the tick
Mean(scores) == Sum(scores) \div Len(scores)

\* math.exp at the avg_logprob values the documents carry, clamped to [0, 1];
\* math.exp raises OverflowError above 709.78, which the code turns into 0.0
ExpClamped(n) ==
    IF n > 7097827 THEN 0
    ELSE IF n >= 0 THEN 10000
    ELSE CASE n = -10000 -> 3679
           [] n = -5000 -> 6065
           [] n = -20000 -> 1353
           [] OTHER -> 0

Clamp01(n) == IF n < 0 THEN 0 ELSE IF n > 10000 THEN 10000 ELSE n

\* the ASR-level part of extract_speaker_score: avg_logprob, no_speech_prob,
\* duration, 0.0
AsrScore(segment) ==
    LET avg_logprob == safe_float(Get(segment, "avg_logprob"))
        no_speech_prob == safe_float(Get(segment, "no_speech_prob"))
        start == safe_float(Get(segment, "start"))
        end == safe_float(Get(segment, "end"))
    IN  IF avg_logprob.exc # "none" THEN [exc |-> avg_logprob.exc, value |-> 0]
        ELSE IF avg_logprob.some THEN [exc |-> "none", value |-> ExpClamped(avg_logprob.n)]
        ELSE IF no_speech_prob.exc # "none" THEN [exc |-> no_speech_prob.exc, value |-> 0]
        ELSE IF no_speech_prob.some
             THEN [exc |-> "none", value |-> Clamp01(10000 - no_speech_prob.n)]
        ELSE IF start.exc # "none" THEN [exc |-> start.exc, value |-> 0]
        ELSE IF end.exc # "none" THEN [exc |-> end.exc, value |-> 0]
        ELSE IF start.some /\ end.some /\ end.n - start.n > 0
             THEN [exc |-> "none", value |-> end.n - start.n]
        ELSE [exc |-> "none", value |-> 0]

\* the word-level part and what follows it
WordLevelScore(segment, speaker) ==
    LET words == Get(segment, "words")
    IN  IF IsList(words) /\ Len(words.v) > 0
        THEN LET w == WordScores(words.v, speaker, <<>>)
             IN  IF w.exc # "none" THEN [exc |-> w.exc, value |-> 0]
                 ELSE IF Len(w.scores) > 0 THEN [exc |-> "none", value |-> Mean(w.scores)]
                 ELSE AsrScore(segment)
        ELSE AsrScore(segment)

extract_speaker_score(segment, speaker) ==
    LET prob == safe_float(Get(segment, "speaker_prob"))
        speaker_probs == Get(segment, "speaker_probs")
        own == IF IsDict(speaker_probs) /\ IsStr(speaker)
               THEN safe_float(Get(speaker_probs.v, speaker.s))
               ELSE [exc |-> "none", some |-> FALSE, n |-> 0]
        generic == FirstNumeric(segment, SegmentScoreKeys)
    IN  IF prob.exc # "none" THEN [exc |-> prob.exc, value |-> 0]
        ELSE IF prob.some THEN [exc |-> "none", value |-> prob.n]
        ELSE IF own.exc # "none" THEN [exc |-> own.exc, value |-> 0]
        ELSE IF own.some THEN [exc |-> "none", value |-> own.n]
        ELSE IF generic.exc # "none" THEN [exc |-> generic.exc, value |-> 0]
        ELSE IF generic.some THEN [exc |-> "none", value |-> generic.n]
        ELSE WordLevelScore(segment, speaker)

(***************************************************************************)
(* speaker_namer.collect_scored_segments_by_speaker                        *)
(***************************************************************************)
\* the characters of the strings a malformed document carries
CharsOf(s) == CASE s = "abc" -> <<"a", "b", "c">> [] s = "" -> <<>> [] OTHER -> <<s>>

\* an enumeration of a set of strings (the iteration order of a dict's keys)
RECURSIVE SeqOfSet(_)
SeqOfSet(S) ==
    IF S = {} THEN <<>>
    ELSE LET x == CHOOSE y \in S : TRUE IN <<x>> \o SeqOfSet(S \ {x})

\* what "for seg in v" goes through: the items of a list (the segments of a
\* list are dicts), the characters of a string, the keys of a dict; any other
\* value is not iterable
Iterate(v) ==
    CASE v.t = "list" -> [exc |-> "none", items |-> [i \in 1..Len(v.v) |-> Dict(v.v[i])]]
      [] v.t = "str" ->
            [exc |-> "none", items |-> [i \in 1..Len(CharsOf(v.s)) |-> Str(CharsOf(v.s)[i])]]
      [] v.t = "dict" ->
            [exc |-> "none",
             items |-> [i \in 1..Cardinality(DOMAIN v.v) |-> Str(SeqOfSet(DOMAIN v.v)[i])]]
      [] OTHER -> [exc |-> "TypeError", items |-> <<>>]

\* the {start, end, text, score} entry of one segment
ScoredEntry(seg, speaker) ==
    LET start == safe_float(Get(seg, "start"))
        end == safe_float(Get(seg, "end"))
        text == Get(seg, "text")
        score == extract_speaker_score(seg, speaker)
    IN  IF start.exc # "none" THEN [exc |-> start.exc]
        ELSE IF end.exc # "none" THEN [exc |-> end.exc]
        ELSE IF Truthy(text) /\ ~IsStr(text) THEN [exc |-> "AttributeError"]
        ELSE IF score.exc # "none" THEN [exc |-> score.exc]
        ELSE [exc |-> "none",
              entry |-> [start |-> IF start.some THEN Num(start.n) ELSE Null,
                         end |-> IF end.some THEN Num(end.n) ELSE Null,
                         text |-> IF Truthy(text) THEN Strip(text.s) ELSE "",
                         score |-> score.value]]

\* mutant: the entry is put in front of the entries already under the key
AppendUnderFront(scored, key, entry) ==
    IF key \in DOMAIN scored.vals
    THEN [scored EXCEPT !.vals[key] = <<entry>> \o @]
    ELSE [keys |-> Append(scored.keys, key),
          vals |-> [k \in (DOMAIN scored.vals) \cup {key} |->
                      IF k = key THEN <<entry>> ELSE scored.vals[k]]]

\* scored_segments.setdefault(speaker, []).append(entry) on an insertion-ordered
\* dict, kept as its key order and its values
AppendUnder(scored, key, entry) ==
    IF key \in DOMAIN scored.vals
    THEN [scored EXCEPT !.vals[key] = Append(@, entry)]
    ELSE [keys |-> Append(scored.keys, key),
          vals |-> [k \in (DOMAIN scored.vals) \cup {key} |->
                      IF k = key THEN <<entry>> ELSE scored.vals[k]]]

NoGroups == [keys |-> <<>>, vals |-> [k \in {} |-> <<>>]]

RECURSIVE GroupLoop(_, _)
GroupLoop(items, scored) ==
    IF Len(items) = 0 THEN [exc |-> "none", scored |-> scored]
    ELSE LET seg == Head(items)
         IN  IF ~IsDict(seg) THEN GroupLoop(Tail(items), scored)
             ELSE IF ~IsStr(Get(seg.v, "speaker")) THEN GroupLoop(Tail(items), scored)
             ELSE LET Rest(e) ==
                          IF e.exc # "none" THEN [exc |-> e.exc, scored |-> scored]
                          ELSE GroupLoop(Tail(items),
                                         AppendUnder(scored, Get(seg.v, "speaker").s, e.entry))
                  IN  Local(ScoredEntry(seg.v, Get(seg.v, "speaker")), Rest)

\* for seg in data.get("segments", [])
collect_scored_segments_by_speaker(d) ==
    LET Loop(it) == IF it.exc # "none" THEN [exc |-> it.exc, scored |-> NoGroups]
                    ELSE GroupLoop(it.items, NoGroups)
    IN  Local(Iterate(GetDefault(d, "segments", List(<<>>))), Loop)

(***************************************************************************)
(* speaker_namer.SPEAKER_RE, replace_speakers_in_text and                  *)
(* replace_speakers_in_json.  A text is a sequence of characters; a Name   *)
(* Mapping is a function from tag strings to name strings.                 *)
(***************************************************************************)
\* the characters of the strings a mapping can hold
Chars(s) ==
    CASE s = "SPEAKER_00" -> <<"S","P","E","A","K","E","R","_","0","0">>
      [] s = "SPEAKER_01" -> <<"S","P","E","A","K","E","R","_","0","1">>
      [] s = "SPEAKER_10" -> <<"S","P","E","A","K","E","R","_","1","0">>
      [] s = "SPEAKER_11" -> <<"S","P","E","A","K","E","R","_","1","1">>
      [] s = "HOST" -> <<"H","O","S","T">>
      [] s = "GUEST" -> <<"G","U","E","S","T">>
      [] s = "" -> <<>>
      [] OTHER -> <<s>>

\* the string a matched tag spells: "SPEAKER_" and its two digits
TagString(d1, d2) ==
    CASE <<d1, d2>> = <<"0", "0">> -> "SPEAKER_00"
      [] <<d1, d2>> = <<"0", "1">> -> "SPEAKER_01"
      [] <<d1, d2>> = <<"1", "0">> -> "SPEAKER_10"
      [] <<d1, d2>> = <<"1", "1">> -> "SPEAKER_11"
      [] OTHER -> "SPEAKER_??"

DigitChars == {"0", "1", "2", "3", "4", "5", "6", "7", "8", "9"}

\* \w: letters, digits and the underscore
WordChars ==
    DigitChars
    \cup {"_", "A", "E", "G", "H", "K", "O", "P", "R", "S", "T", "U", "x"}
    \cup {"a", "e", "h", "k", "p", "r", "s", "z", "Z", "e_acute", "zhe", "ZHE",
          "hard_sign", "han_li", "y", "n", "Y", "N"}

SpeakerPrefix == <<"S","P","E","A","K","E","R","_">>

\* whether \b(SPEAKER_\d{2})\b matches at position p of text
MatchAt(text, p) ==
    /\ p + 9 <= Len(text)
    /\ SubSeq(text, p, p + 7) = SpeakerPrefix
    /\ text[p + 8] \in DigitChars
    /\ text[p + 9] \in DigitChars
    /\ (p = 1 \/ text[p - 1] \notin WordChars)
    /\ (p + 10 > Len(text) \/ text[p + 10] \notin WordChars)

\* replacer: mapping.get(match.group(0), match.group(0))
Replacer(tag, mapping) == IF tag \in DOMAIN mapping THEN mapping[tag] ELSE tag

\* SPEAKER_RE.sub(replacer, text) from position p on: one left-to-right scan
\* of the original text
RECURSIVE SubFrom(_, _, _)
SubFrom(text, p, mapping) ==
    IF p > Len(text) THEN <<>>
    ELSE IF MatchAt(text, p)
         THEN Chars(Replacer(TagString(text[p + 8], text[p + 9]), mapping))
              \o SubFrom(text, p + 10, mapping)
    ELSE <<text[p]>> \o SubFrom(text, p + 1, mapping)

\* mutant: substitute until no mapped tag is left (a tag written by one
\* substitution is substituted again)
RECURSIVE SubRepeated(_, _, _)
SubRepeated(text, mapping, fuel) ==
    LET once == SubFrom(text, 1, mapping)
    IN  IF fuel = 0 \/ once = text THEN once ELSE SubRepeated(once, mapping, fuel - 1)
replace_speakers_in_text_repeated(text, mapping) == SubRepeated(text, mapping, 1)

replace_speakers_in_text(text, mapping) == SubFrom(text, 1, mapping)

\* mutant: seg["speaker"] = mapping.get(speaker), which clears an unmapped tag
RelabelSegmentGet(seg, mapping) ==
    LET speaker == Get(seg, "speaker")
    IN  IF IsStr(speaker)
        THEN [exc |-> "none",
              seg |-> SetKey(seg, "speaker",
                             IF speaker.s \in DOMAIN mapping
                             THEN Str(mapping[speaker.s]) ELSE Null)]
        ELSE [exc |-> "none", seg |-> seg]

\* "speaker in mapping" and the assignment, for one segment
RelabelSegment(seg, mapping) ==
    LET speaker == Get(seg, "speaker")
    IN  IF speaker.t \in {"list", "dict"} THEN [exc |-> "TypeError", seg |-> seg]
        ELSE IF IsStr(speaker) /\ speaker.s \in DOMAIN mapping
             THEN [exc |-> "none", seg |-> SetKey(seg, "speaker", Str(mapping[speaker.s]))]
        ELSE [exc |-> "none", seg |-> seg]

RECURSIVE RelabelLoop(_, _, _)
RelabelLoop(segs, i, mapping) ==
    IF i > Len(segs) THEN [exc |-> "none", segs |-> segs]
    ELSE LET Rest(r) == IF r.exc # "none" THEN [exc |-> r.exc, segs |-> segs]
                        ELSE RelabelLoop([segs EXCEPT ![i] = r.seg], i + 1, mapping)
         IN  Local(RelabelSegment(segs[i], mapping), Rest)

\* the document after the call (it is also the returned value) and the
\* exception the call ended with
replace_speakers_in_json(d, mapping) ==
    LET segments == Get(d, "segments")
    IN  IF IsList(segments)
        THEN LET Out(r) == [exc |-> r.exc, data |-> SetKey(d, "segments", List(r.segs))]
             IN  Local(RelabelLoop(segments.v, 1, mapping), Out)
        ELSE [exc |-> "none", data |-> d]

(***************************************************************************)
(* speaker_namer.collect_speaker_lines and the lines main hands to it.     *)
(***************************************************************************)
\* str.splitlines() (the only line boundary of the model is "\n")
RECURSIVE SplitLines(_)
SplitLines(text) ==
    IF \A i \in 1..Len(text) : text[i] # "\n"
    THEN IF Len(text) = 0 THEN <<>> ELSE <<text>>
    ELSE LET n == CHOOSE i \in 1..Len(text) :
                    text[i] = "\n" /\ \A j \in 1..(i - 1) : text[j] # "\n"
         IN  <<SubSeq(text, 1, n - 1)>> \o SplitLines(SubSeq(text, n + 1, Len(text)))

\* SPEAKER_RE.findall(line) from position p on
RECURSIVE FindAll(_, _)
FindAll(line, p) ==
    IF p > Len(line) THEN <<>>
    ELSE IF MatchAt(line, p)
         THEN <<TagString(line[p + 8], line[p + 9])>> \o FindAll(line, p + 10)
    ELSE FindAll(line, p + 1)

\* the inner loop: the matches of one line
RECURSIVE CollectMatches(_, _, _)
CollectMatches(matches, line, acc) ==
    IF Len(matches) = 0 THEN acc
    ELSE LET Rest(next) == CollectMatches(Tail(matches), line, next)
         IN  Local([speaker_lines |-> AppendUnder(acc.speaker_lines, Head(matches), line),
                    ordered |-> IF \E i \in 1..Len(acc.ordered) : acc.ordered[i] = Head(matches)
                                THEN acc.ordered
                                ELSE Append(acc.ordered, Head(matches))],
                   Rest)

\* the outer loop: for line in lines
RECURSIVE CollectLines(_, _)
CollectLines(lines, acc) ==
    IF Len(lines) = 0 THEN acc
    ELSE LET Rest(next) == CollectLines(Tail(lines), next)
         IN  Local(CollectMatches(FindAll(Head(lines), 1), Head(lines), acc), Rest)

collect_speaker_lines(lines) ==
    CollectLines(lines, [speaker_lines |-> NoGroups, ordered |-> <<>>])

(***************************************************************************)
(* speaker_namer.transliterate_to_english.  A name is a sequence of        *)
(* characters; the characters outside ASCII are written by name: e_acute   *)
(* (U+00E9), combining_acute (U+0301), ZHE and zhe (U+0416, U+0436),       *)
(* hard_sign (U+044A), han_li (U+674E).                                    *)
(***************************************************************************)
\* the entries of CYRILLIC_TO_LATIN for the Cyrillic letters of the model
CYRILLIC_TO_LATIN == [zhe |-> <<"z", "h">>, hard_sign |-> <<>>]

\* str.lower() and str.upper() of one character
Lower(ch) ==
    CASE ch = "Z" -> "z" [] ch = "ZHE" -> "zhe" [] ch = "Y" -> "y" [] OTHER -> ch
Upper(ch) ==
    CASE ch = "a" -> "A" [] ch = "e" -> "E" [] ch = "h" -> "H" [] ch = "k" -> "K"
      [] ch = "p" -> "P" [] ch = "r" -> "R" [] ch = "s" -> "S" [] ch = "z" -> "Z"
      [] ch = "zhe" -> "ZHE" [] ch = "e_acute" -> "E_ACUTE"
      [] ch = "y" -> "Y" [] ch = "n" -> "N"
      [] OTHER -> ch

\* the loop over the characters of the name
RECURSIVE TransliterateChars(_)
TransliterateChars(name) ==
    IF Len(name) = 0 THEN <<>>
    ELSE (IF Lower(Head(name)) \in DOMAIN CYRILLIC_TO_LATIN
          THEN CYRILLIC_TO_LATIN[Lower(Head(name))]
          ELSE <<Head(name)>>)
         \o TransliterateChars(Tail(name))

\* unicodedata.normalize("NFKD", ch) and unicodedata.combining(ch)
NFKD(ch) == IF ch = "e_acute" THEN <<"e", "combining_acute">> ELSE <<ch>>
Combining(ch) == ch = "combining_acute"

RECURSIVE strip_diacritics(_)
strip_diacritics(text) ==
    IF Len(text) = 0 THEN <<>>
    ELSE SelectSeq(NFKD(Head(text)), LAMBDA ch : ~Combining(ch))
         \o strip_diacritics(Tail(text))

\* \s and the class [-\s]
SpaceChars == {" "}
Separators == SpaceChars \cup {"-"}

\* re.sub(r"[^\w\s-]", " ", ascii_like)
Sanitized(text) ==
    [i \in 1..Len(text) |->
        IF text[i] \in WordChars \cup Separators THEN text[i] ELSE " "]

\* re.sub(r"[-\s]+", "_", sanitized): each maximal run becomes one underscore
RECURSIVE Collapsed(_)
Collapsed(text) ==
    IF Len(text) = 0 THEN <<>>
    ELSE IF Head(text) \in Separators
         THEN IF Len(text) > 1 /\ text[2] \in Separators
              THEN Collapsed(Tail(text))
              ELSE <<"_">> \o Collapsed(Tail(text))
    ELSE <<Head(text)>> \o Collapsed(Tail(text))

\* str.strip("_")
RECURSIVE StripUnderscores(_)
StripUnderscores(text) ==
    IF Len(text) = 0 THEN <<>>
    ELSE IF Head(text) = "_" THEN StripUnderscores(Tail(text))
    ELSE IF text[Len(text)] = "_" THEN StripUnderscores(SubSeq(text, 1, Len(text) - 1))
    ELSE text

UpperAll(text) == [i \in 1..Len(text) |-> Upper(text[i])]

transliterate_to_english(name) ==
    UpperAll(StripUnderscores(Collapsed(Sanitized(
        strip_diacritics(TransliterateChars(name))))))

(***************************************************************************)
(* The documents the transcription engine can hand to the core.            *)
(***************************************************************************)
Absent == [t |-> "absent"]       \* marks a key the producer left out

\* a dict from (key, value) pairs, leaving out the keys marked Absent
MkDict(keys, vals) ==
    [k \in {keys[i] : i \in {j \in 1..Len(keys) : vals[j] # Absent}} |->
        vals[CHOOSE i \in 1..Len(keys) : keys[i] = k]]

MkSeg(start, end, speaker, text) ==
    MkDict(<<"start", "end", "speaker", "text">>, <<start, end, speaker, text>>)

\* (start, end) of a long segment and of a short one (0.4 s)
LongSpan == <<Num(0), Num(20000)>>
ShortSpan == <<Num(20000), Num(24000)>>
PlainSpans == {LongSpan, ShortSpan}

SpeakerTags == {Str("SPEAKER_00"), Str("SPEAKER_01")}

TextAt == <<Str("hello "), Str(" da "), Str("world"), Str("x"), Str(" ")>>

\* the segments that can stand at position i of a document: the plain spans
\* with a tag, an empty tag or none; an end before the start; a null start, an
\* absent start and a non-numeric end
\* (from the fourth position on, the short span with a tag only)
SegmentsAt(i) ==
    {MkSeg(ShortSpan[1], ShortSpan[2], tag, TextAt[i]) : tag \in SpeakerTags}
    \cup
    IF i > 3 THEN {}
    ELSE {MkSeg(LongSpan[1], LongSpan[2], tag, TextAt[i]) : tag \in SpeakerTags}
         \cup {MkSeg(sp[1], sp[2], tag, TextAt[i]) :
            sp \in PlainSpans, tag \in {Absent, Str("")}}
         \cup {MkSeg(Num(50000), Num(40000), Str("SPEAKER_01"), TextAt[i]),
               MkSeg(Null, Num(1000), Str("SPEAKER_00"), TextAt[i]),
               MkSeg(Absent, Num(3000), Str("SPEAKER_01"), TextAt[i]),
               MkSeg(Num(24000), Str("abc"), Str("SPEAKER_01"), TextAt[i])}

\* documents whose segments key is missing, null or bound to a non-list
MalformedDocs ==
    {[other |-> Str("keep")]}
    \cup {[segments |-> v, other |-> Str("keep")] :
            v \in {Null, Num(5), Str("abc"), Dict([a |-> Num(1)]), Str(""), Dict(EmptyDict)}}

\* the document with an empty segment list
EmptyDoc == [segments |-> List(<<>>), other |-> Str("keep")]

NoRet == [exc |-> "none"]

\* main has not been started
NoSession == [pc |-> "idle"]
NoRun == [pc |-> "none"]

Init ==
    /\ data \in {EmptyDoc} \cup MalformedDocs
    /\ data0 = data
    /\ transcript = <<>>
    /\ op = ""
    /\ arg = Null
    /\ ret = NoRet
    /\ session = NoSession
    /\ run = NoRun

\* the transcription engine writes one more segment into the document
Produce ==
    /\ op = ""
    /\ "segments" \in DOMAIN data
    /\ IsList(data["segments"])
    /\ Len(data["segments"].v) < MaxSegs
    /\ \E s \in SegmentsAt(Len(data["segments"].v) + 1) :
        data' = SetKey(data, "segments", List(Append(data["segments"].v, s)))
    /\ data0' = data'
    /\ UNCHANGED <<run, session, transcript, op, arg, ret>>

Thresholds == {DefaultMaxShort, 4000}

\* the Name Mappings handed to the Relabeler
Mappings ==
    {[k \in {} |-> ""],
     [SPEAKER_00 |-> "HOST"],
     [SPEAKER_00 |-> "HOST", SPEAKER_01 |-> "GUEST"],
     [SPEAKER_00 |-> "SPEAKER_01", SPEAKER_01 |-> "SPEAKER_00"]}

\* smooth_speaker_labels(data["segments"], max_short) on a document with a list
CallSmooth ==
    /\ op = ""
    /\ "segments" \in DOMAIN data
    /\ IsList(data["segments"])
    /\ \E max_short \in Thresholds :
        LET r == smooth_speaker_labels(data["segments"].v, max_short)
        IN  /\ data' = SetKey(data, "segments", List(r.segs))
            /\ arg' = Num(max_short)
            /\ ret' = [exc |-> r.exc]
    /\ op' = "smooth"
    /\ UNCHANGED <<run, session, data0, transcript>>

\* smooth_speaker_labels is called a second time on the same list with the same
\* threshold; ret keeps the document as it was before the first call
CallSmoothAgain ==
    /\ op = "smooth"
    /\ LET r == smooth_speaker_labels(data["segments"].v, arg.n)
       IN  /\ data' = SetKey(data, "segments", List(r.segs))
           /\ ret' = [exc |-> r.exc, first_exc |-> ret.exc, original |-> data0]
    /\ data0' = data
    /\ op' = "smooth_again"
    /\ UNCHANGED <<run, session, transcript, arg>>

\* build_diarized_transcript_lines_from_data(data)
CallRender ==
    /\ op = ""
    /\ LET r == build_diarized_transcript_lines_from_data(data)
       IN  /\ data' = r.data
           /\ ret' = [exc |-> r.exc, lines |-> r.lines]
    /\ op' = "render"
    /\ UNCHANGED <<run, session, data0, transcript, arg>>

\* collect_scored_segments_by_speaker(data)
CallGroup ==
    /\ op = ""
    /\ LET r == collect_scored_segments_by_speaker(data)
       IN  ret' = [exc |-> r.exc, scored |-> r.scored]
    /\ op' = "group"
    /\ UNCHANGED <<run, session, data, data0, transcript, arg>>

\* replace_speakers_in_json(data, mapping)
CallRelabelJson ==
    /\ op = ""
    /\ \E mapping \in Mappings :
        LET r == replace_speakers_in_json(data, mapping)
        IN  /\ data' = r.data
            /\ arg' = mapping
            /\ ret' = [exc |-> r.exc, data |-> r.data]
    /\ op' = "relabel_json"
    /\ UNCHANGED <<run, session, data0, transcript>>

Next ==
    \/ Produce
    \/ CallSmooth
    \/ CallSmoothAgain
    \/ CallRender
    \/ CallGroup
    \/ CallRelabelJson

Spec == Init /\ [][Next]_vars

(***************************************************************************)
(* The smoother on chains: chronological lists of 3 to MaxChain segments,   *)
(* each tagged with one of three speakers; the first and the last segment  *)
(* are short or long, the segments in between are short.                   *)
(***************************************************************************)
ChainTags == {Str("SPEAKER_00"), Str("SPEAKER_01"), Str("SPEAKER_02")}

\* the segment at position i: it starts at 3 * i seconds and lasts 2 seconds
\* (long) or 0.4 seconds (short)
ChainSeg(i, long, tag) ==
    MkSeg(Num(3 * i * TicksPerSecond),
          Num(3 * i * TicksPerSecond + (IF long THEN 20000 ELSE 4000)),
          tag, Str("x"))

InitChain ==
    /\ \E n \in 3..MaxChain, first_long \in BOOLEAN, last_long \in BOOLEAN :
       \E tags \in [1..n -> ChainTags] :
           data = [segments |->
                     List([i \in 1..n |->
                             ChainSeg(i, (i = 1 /\ first_long) \/ (i = n /\ last_long),
                                      tags[i])])]
    /\ data0 = data
    /\ transcript = <<>>
    /\ op = ""
    /\ arg = Null
    /\ ret = NoRet
    /\ session = NoSession
    /\ run = NoRun

NextChain == CallSmooth \/ CallSmoothAgain

SpecChain == InitChain /\ [][NextChain]_vars

(***************************************************************************)
(* Transcript texts and the text form of the Relabeler.                    *)
(***************************************************************************)
\* what a transcript text is made of
Tokens ==
    {Chars("SPEAKER_00"), Chars("SPEAKER_01"), SpeakerPrefix, <<"0">>, <<" ">>, <<"x">>,
     <<"\n">>}

\* before the call arg counts the tokens written
InitText ==
    /\ data = EmptyDoc
    /\ data0 = data
    /\ transcript = <<>>
    /\ op = ""
    /\ arg = Num(0)
    /\ ret = NoRet
    /\ session = NoSession
    /\ run = NoRun

\* one more token of transcript text
WriteToken ==
    /\ op = ""
    /\ arg.n < MaxTokens
    /\ \E tok \in Tokens : transcript' = transcript \o tok
    /\ arg' = Num(arg.n + 1)
    /\ UNCHANGED <<run, session, data, data0, op, ret>>

\* replace_speakers_in_text(transcript, mapping)
CallRelabelText ==
    /\ op = ""
    /\ \E mapping \in Mappings :
        /\ arg' = mapping
        /\ ret' = [exc |-> "none", text |-> replace_speakers_in_text(transcript, mapping)]
    /\ op' = "relabel_text"
    /\ UNCHANGED <<run, session, data, data0, transcript>>

\* collect_speaker_lines(text_content.splitlines())
CallCollect ==
    /\ op = ""
    /\ LET r == collect_speaker_lines(SplitLines(transcript))
       IN  ret' = [exc |-> "none", speaker_lines |-> r.speaker_lines, ordered |-> r.ordered]
    /\ op' = "collect"
    /\ UNCHANGED <<run, session, data, data0, transcript, arg>>

NextText == WriteToken \/ CallRelabelText \/ CallCollect

SpecText == InitText /\ [][NextText]_vars

(***************************************************************************)
(* Segments with confidence fields and the Evidence Scorer.                *)
(***************************************************************************)
\* the optional confidence fields, in the order the engine writes them
ScoreFields ==
    <<"speaker_prob", "speaker_probs", "score", "confidence", "words",
      "avg_logprob", "no_speech_prob", "start", "end">>

\* the words a segment can carry
WordVariants ==
    {Dict([word |-> Str("hello"), score |-> Num(2000)]),
     Dict([speaker |-> Str("SPEAKER_01"), prob |-> Str("n/a"), score |-> Num(5000),
           confidence |-> Num(3000)]),
     Dict([speaker |-> Str("SPEAKER_02"), score |-> Num(9000)]),
     Str("w")}

WordLists == UNION {[1..n -> WordVariants] : n \in 0..MaxWords}

\* the values the engine can write under each field
FieldValues(k) ==
    CASE k = "speaker_prob" -> {Num(3000), Str("n/a"), Huge}
      [] k = "speaker_probs" ->
            {Dict([SPEAKER_01 |-> Num(9000)]),
             Dict([SPEAKER_01 |-> Str("n/a"), SPEAKER_02 |-> Num(5000)]), Str("n/a")}
      [] k = "score" -> {Num(4000), Null}
      [] k = "confidence" -> {Num(6000), List(<<>>)}
      [] k = "words" -> {List(w) : w \in WordLists} \cup {Str("n/a")}
      [] k = "avg_logprob" -> {Num(-10000), Num(8000000)}
      [] k = "no_speech_prob" -> {Num(2000), Num(-5000)}
      [] k = "start" -> {Num(20000), Str("n/a")}
      [] k = "end" -> {Num(24000), Num(10000)}
      [] OTHER -> {}

RankOf(k) == CHOOSE i \in 1..Len(ScoreFields) : ScoreFields[i] = k

\* a segment the engine has written completely
Sibling ==
    [speaker |-> Str("SPEAKER_01"), speaker_prob |-> Num(3000),
     start |-> Num(100000), end |-> Num(120000), text |-> Str("Low confidence")]

SegList == data["segments"].v

InitScore ==
    /\ data = EmptyDoc
    /\ data0 = data
    /\ transcript = <<>>
    /\ op = ""
    /\ arg = Null
    /\ ret = NoRet
    /\ session = NoSession
    /\ run = NoRun

\* the engine starts a segment of SPEAKER_01
NewSegment ==
    /\ op = ""
    /\ \A i \in 1..Len(SegList) : SegList[i] = Sibling
    /\ data' = SetKey(data, "segments",
                      List(Append(SegList, [speaker |-> Str("SPEAKER_01"),
                                            text |-> Str(" da ")])))
    /\ data0' = data'
    /\ UNCHANGED <<run, session, transcript, op, arg, ret>>

\* the engine writes the next confidence field of the segment it is writing
AddField ==
    /\ op = ""
    /\ Len(SegList) > 0
    /\ SegList[Len(SegList)] # Sibling
    /\ LET seg == SegList[Len(SegList)]
           present == {i \in 1..Len(ScoreFields) : ScoreFields[i] \in DOMAIN seg}
       IN  /\ Cardinality(present) < MaxFields
           /\ \E i \in 1..Len(ScoreFields) :
               /\ \A j \in present : j < i
               /\ \E v \in FieldValues(ScoreFields[i]) :
                   data' = SetKey(data, "segments",
                                  List([SegList EXCEPT ![Len(SegList)] =
                                            SetKey(seg, ScoreFields[i], v)]))
    /\ data0' = data'
    /\ UNCHANGED <<run, session, transcript, op, arg, ret>>

\* the engine writes a complete segment at the head of the document
AppendSibling ==
    /\ op = ""
    /\ Len(SegList) = 0
    /\ data' = SetKey(data, "segments", List(Append(SegList, Sibling)))
    /\ data0' = data'
    /\ UNCHANGED <<run, session, transcript, op, arg, ret>>

\* extract_speaker_score(segments[i], speaker)
CallScore ==
    /\ op = ""
    /\ \E i \in 1..Len(SegList), speaker \in {Str("SPEAKER_01"), Str("SPEAKER_02")} :
        /\ SegList[i] # Sibling
        /\ arg' = [i |-> i, speaker |-> speaker]
        /\ ret' = extract_speaker_score(SegList[i], speaker)
    /\ op' = "score"
    /\ UNCHANGED <<run, session, data, data0, transcript>>

NextScore == NewSegment \/ AddField \/ AppendSibling \/ CallScore \/ CallGroup

SpecScore == InitScore /\ [][NextScore]_vars

(***************************************************************************)
(* Names typed by the operator and the Name Normalizer.                    *)
(***************************************************************************)
\* what a typed name is made of
NameTokens ==
    {<<"s", "p", "e", "a", "k", "e", "r">>, <<"a">>, <<"Z">>, <<"0">>, <<"_">>,
     <<" ">>, <<"-">>, <<"!">>, <<"e_acute">>, <<"ZHE">>, <<"hard_sign">>, <<"han_li">>}

\* before the call arg counts the tokens typed
InitName ==
    /\ data = EmptyDoc
    /\ data0 = data
    /\ transcript = <<>>
    /\ op = ""
    /\ arg = Num(0)
    /\ ret = NoRet
    /\ session = NoSession
    /\ run = NoRun

\* one more token of the name
TypeName ==
    /\ op = ""
    /\ arg.n < MaxNameTokens
    /\ \E tok \in NameTokens : transcript' = transcript \o tok
    /\ arg' = Num(arg.n + 1)
    /\ UNCHANGED <<run, session, data, data0, op, ret>>

\* transliterate_to_english(name)
CallNormalize ==
    /\ op = ""
    /\ ret' = [exc |-> "none", text |-> transliterate_to_english(transcript)]
    /\ op' = "normalize"
    /\ UNCHANGED <<run, session, data, data0, transcript, arg>>

NextName == TypeName \/ CallNormalize

SpecName == InitName /\ [][NextName]_vars

(***************************************************************************)
(* speaker_namer.main and prompt_for_name: the interactive relabeling      *)
(* session.  transcript is the text file, data the JSON file (when there   *)
(* is one); session holds the position of main and its local variables.    *)
(***************************************************************************)
\* the transcript files a session can be started on
SessionTexts ==
    {Chars("SPEAKER_00") \o <<" ", "x", "\n">> \o Chars("SPEAKER_01"),
     Chars("SPEAKER_01") \o <<"\n">> \o Chars("SPEAKER_00") \o <<" ">> \o Chars("SPEAKER_01"),
     Chars("SPEAKER_00"),
     <<"x">>}

\* the JSON files that can stand next to the transcript
SessionDocs ==
    {[segments |-> List(<<MkSeg(LongSpan[1], LongSpan[2], Str("SPEAKER_00"), Str("hello ")),
                         MkSeg(ShortSpan[1], ShortSpan[2], Str("SPEAKER_01"), Str(" da "))>>),
      other |-> Str("keep")],
     [segments |-> List(<<MkSeg(LongSpan[1], LongSpan[2], Str("SPEAKER_01"), Str("world"))>>),
      other |-> Str("keep")],
     [segments |-> Null, other |-> Str("keep")]}

\* the lines the operator can type
OperatorLines ==
    {<<>>, <<" ">>, <<"!">>, <<" ", "a">>, <<"s", "p", "e", "a", "k", "e", "r", "_", "0", "1">>,
     <<"y">>, <<"Y", " ">>, <<"e">>, <<"n">>}

\* no NAMED_ file has been written
NoFile == [t |-> "absent"]

\* a NAMED_ file that was written, with its content
File(content) == [t |-> "file", content |-> content]

\* str.strip() and str.lower() of a typed line
RECURSIVE StripSpaces(_)
StripSpaces(line) ==
    IF Len(line) = 0 THEN <<>>
    ELSE IF Head(line) \in SpaceChars THEN StripSpaces(Tail(line))
    ELSE IF line[Len(line)] \in SpaceChars THEN StripSpaces(SubSeq(line, 1, Len(line) - 1))
    ELSE line

LowerAll(line) == [i \in 1..Len(line) |-> Lower(line[i])]

\* the string a sequence of characters spells
StringOf(chars) ==
    IF Len(chars) = 0 THEN ""
    ELSE IF Len(chars) = 1 THEN chars[1]
    ELSE CHOOSE name \in {"SPEAKER_00", "SPEAKER_01", "HOST", "GUEST"} : Chars(name) = chars

\* mapping[speaker] = name
Bind(mapping, speaker, name) ==
    [k \in (DOMAIN mapping) \cup {speaker} |-> IF k = speaker THEN name ELSE mapping[k]]

\* mutant of the confirmation test: every answer but 'e' confirms
ConfirmsLax(confirmation) == confirmation # <<"e">>

\* mutant of the confirmation test: no answer confirms
ConfirmsNever(confirmation) == FALSE

\* if confirmation == "y"
Confirms(confirmation) == confirmation = <<"y">>

\* mutant of the loop over the tags: it ends after the first tag
MoreSpeakersNever(index, speaker_order) == FALSE

\* for speaker in speaker_order: there is a tag after the one at index
MoreSpeakers(index, speaker_order) == index < Len(speaker_order)

InitSession ==
    /\ transcript \in SessionTexts
    /\ data \in SessionDocs \cup {EmptyDoc}      \* EmptyDoc: there is no JSON file
    /\ data0 = data
    /\ op = ""
    /\ arg = Null
    /\ ret = NoRet
    /\ session = [pc |-> "idle", has_json |-> data # EmptyDoc]
    /\ run = NoRun

\* main up to the first prompt: the files are read, the segments grouped and
\* the tags of the transcript collected
StartSession ==
    /\ session.pc = "idle"
    /\ LET grouped == IF session.has_json
                      THEN collect_scored_segments_by_speaker(data).exc ELSE "none"
           found == collect_speaker_lines(SplitLines(transcript))
           locals == [has_json |-> session.has_json, speaker_order |-> found.ordered,
                      index |-> 1, mapping |-> [k \in {} |-> ""],
                      line |-> <<>>, raw_name |-> <<>>, normalized |-> <<>>,
                      named_text |-> NoFile, named_json |-> NoFile]
       IN  session' =
             IF grouped # "none" THEN [locals EXCEPT !.speaker_order = <<>>] @@ [pc |-> "raised"]
             ELSE IF Len(found.ordered) = 0 THEN locals @@ [pc |-> "no_tags"]
             ELSE locals @@ [pc |-> "prompting"]
    /\ UNCHANGED <<run, data, data0, transcript, op, arg, ret>>

\* normalized = transliterate_to_english(raw_name), for each name the operator
\* can enter
NormalizedName ==
    [raw_name \in {StripSpaces(line) : line \in OperatorLines} |->
        transliterate_to_english(raw_name)]

\* prompt_for_name: a line is read at "Enter the real name"
ReadName ==
    /\ session.pc = "prompting"
    /\ \E line \in OperatorLines :
        LET raw_name == StripSpaces(line)
        IN  session' =
              IF Len(raw_name) = 0
              THEN [session EXCEPT !.line = line]
              ELSE [session EXCEPT !.line = line, !.raw_name = raw_name,
                                   !.normalized = NormalizedName[raw_name],
                                   !.pc = "confirming"]
    /\ UNCHANGED <<run, data, data0, transcript, op, arg, ret>>

\* prompt_for_name: a line is read at "Enter 'y' to confirm or 'e' to edit";
\* on 'y' the name is returned and main binds it and goes to the next tag
ReadConfirmation ==
    /\ session.pc = "confirming"
    /\ \E line \in OperatorLines :
        LET confirmation == LowerAll(StripSpaces(line))
            speaker == session.speaker_order[session.index]
        IN  session' =
              IF Confirms(confirmation)
              THEN [session EXCEPT
                      !.line = line,
                      !.mapping = Bind(@, speaker, StringOf(session.normalized)),
                      !.index = IF MoreSpeakers(@, session.speaker_order) THEN @ + 1 ELSE @,
                      !.pc = IF MoreSpeakers(session.index, session.speaker_order)
                             THEN "prompting" ELSE "applying"]
              ELSE IF confirmation = <<"e">>
              THEN [session EXCEPT !.line = line, !.pc = "prompting"]
              ELSE [session EXCEPT !.line = line]
    /\ UNCHANGED <<run, data, data0, transcript, op, arg, ret>>

\* input() raises EOFError or KeyboardInterrupt: main ends there
EndOfInput ==
    /\ session.pc \in {"prompting", "confirming"}
    /\ session' = [session EXCEPT !.pc = "stopped"]
    /\ UNCHANGED <<run, data, data0, transcript, op, arg, ret>>

\* the NAMED_ text file is written
WriteNamedText ==
    /\ session.pc = "applying"
    /\ session' = [session EXCEPT
                      !.named_text = File(replace_speakers_in_text(transcript, session.mapping)),
                      !.pc = IF session.has_json THEN "applying_json" ELSE "applied"]
    /\ UNCHANGED <<run, data, data0, transcript, op, arg, ret>>

\* the JSON file is loaded again, relabelled and written as the NAMED_ JSON file
WriteNamedJson ==
    /\ session.pc = "applying_json"
    /\ LET r == replace_speakers_in_json(data, session.mapping)
       IN  session' = [session EXCEPT
                         !.named_json = IF r.exc = "none" THEN File(r.data) ELSE NoFile,
                         !.pc = IF r.exc = "none" THEN "applied" ELSE "raised"]
    /\ UNCHANGED <<run, data, data0, transcript, op, arg, ret>>

NextSession ==
    \/ StartSession
    \/ ReadName
    \/ ReadConfirmation
    \/ EndOfInput
    \/ WriteNamedText
    \/ WriteNamedJson

SpecSession == InitSession /\ [][NextSession]_vars

\* the operator enters a name that is not blank
EnterName == ReadName /\ session'.pc = "confirming"

\* the operator answers 'y'
AnswerYes == ReadConfirmation /\ Confirms(LowerAll(StripSpaces(session'.line)))

\* The session with a cooperating operator: main runs on whenever it does not
\* wait for input, and an operator who is asked again and again eventually
\* enters a name and eventually answers 'y' (or closes the input).
FairSession ==
    /\ WF_vars(StartSession)
    /\ WF_vars(WriteNamedText)
    /\ WF_vars(WriteNamedJson)
    /\ SF_vars(EnterName)
    /\ SF_vars(AnswerYes)

SpecSessionFair == SpecSession /\ FairSession

(***************************************************************************)
(* main.main, outer stage: the workspace is created, the venv is set up    *)
(* and the script is run again inside it (pipeline.setup_and_run_in_venv), *)
(* the exceptions are handled, the workspace is cleaned and the process    *)
(* exits.                                                                  *)
(***************************************************************************)
\* the return codes of a subprocess: success, failures, death by a signal
ReturnCodes == {0, 1, 2, 130, -9}

\* the exceptions main handles, and any other one (OSError, RuntimeError ...)
Handled == {"DependencyInstallationError", "DependencyError", "PipelineError",
            "KeyboardInterrupt"}
Unexpected == "OSError"

\* the steps of setup_and_run_in_venv, in order
SetupSteps == <<"preflight", "venv", "locate", "install", "inner">>

\* mutant of the handlers: the workspace is preserved after every handled error
PreservesWorkspaceOnAnyError(exc) == exc \in Handled \ {"KeyboardInterrupt"}

\* the handler sets cleanup_workspace = False
PreservesWorkspace(exc) == exc = "DependencyInstallationError"

\* the exit_code a handler sets
HandlerExitCode(exc) == IF exc = "KeyboardInterrupt" THEN 130 ELSE 1

\* the exit status of sys.exit(code), as the parent process sees it
ExitStatus(code) == code % 256

InitOuter ==
    /\ data = EmptyDoc
    /\ data0 = data
    /\ transcript = <<>>
    /\ op = ""
    /\ arg = Null
    /\ ret = NoRet
    /\ session = NoSession
    /\ \E url, mps \in BOOLEAN :
        run = [pc |-> "outer", url |-> url, mps_convert |-> mps]

\* os.makedirs(work_dir); exit_code = 0; cleanup_workspace = True; the URL of
\* the command line goes to the environment
CreateWorkspace ==
    /\ run.pc = "outer"
    /\ run' = [pc |-> "preflight", url |-> run.url, mps_convert |-> run.mps_convert,
               env_url |-> run.url, work_dir |-> TRUE, exit_code |-> 0,
               cleanup_workspace |-> TRUE, raised |-> "none", outcome |-> "running",
               status |-> 0]
    /\ UNCHANGED <<data, data0, transcript, op, arg, ret, session>>

\* the step after a step of setup_and_run_in_venv that went through
Raise(exc) == [run EXCEPT !.pc = "handlers", !.raised = exc, !.outcome = exc]
Proceed(step) == [run EXCEPT !.pc = step]

\* ensure_pkg_config_available()
Preflight ==
    /\ run.pc = "preflight"
    /\ run' \in {Proceed("venv"), Raise("DependencyInstallationError")}
    /\ UNCHANGED <<data, data0, transcript, op, arg, ret, session>>

\* python -m venv: a return code other than 0 raises PipelineError
CreateVenv ==
    /\ run.pc = "venv"
    /\ \E rc \in ReturnCodes :
        run' = IF rc # 0 THEN Raise("PipelineError") ELSE Proceed("locate")
    /\ UNCHANGED <<data, data0, transcript, op, arg, ret, session>>

\* os.path.isfile(venv_python)
LocateVenvPython ==
    /\ run.pc = "locate"
    /\ run' \in {Proceed("install"), Raise("PipelineError")}
    /\ UNCHANGED <<data, data0, transcript, op, arg, ret, session>>

\* install_python_dependencies: its own pkg-config preflight, then pip runs, of
\* which a return code other than 0 raises DependencyError
InstallDependencies ==
    /\ run.pc = "install"
    /\ \/ run' = Raise("DependencyInstallationError")
       \/ \E rc \in ReturnCodes :
            run' = IF rc # 0 THEN Raise("DependencyError") ELSE Proceed("inner")
    /\ UNCHANGED <<data, data0, transcript, op, arg, ret, session>>

\* subprocess.run of the entry point inside the venv; its return code is
\* the exit_code of main
RunInner ==
    /\ run.pc = "inner"
    /\ \E rc \in ReturnCodes :
        run' = [run EXCEPT !.pc = "finally", !.exit_code = rc,
                           !.outcome = IF rc = 0 THEN "completed" ELSE "inner failed"]
    /\ UNCHANGED <<data, data0, transcript, op, arg, ret, session>>

\* Ctrl-C while setup_and_run_in_venv runs
Interrupt ==
    /\ run.pc \in {SetupSteps[i] : i \in 1..Len(SetupSteps)}
    /\ run' = Raise("KeyboardInterrupt")
    /\ UNCHANGED <<data, data0, transcript, op, arg, ret, session>>

\* an exception main has no handler for (a subprocess that cannot be started)
UnexpectedError ==
    /\ run.pc \in {"venv", "install", "inner"}
    /\ run' = Raise(Unexpected)
    /\ UNCHANGED <<data, data0, transcript, op, arg, ret, session>>

\* the except clauses of main; an exception without a handler stays raised
Handle ==
    /\ run.pc = "handlers"
    /\ run' = IF run.raised \in Handled
              THEN [run EXCEPT !.pc = "finally",
                               !.raised = "none",
                               !.exit_code = HandlerExitCode(run.raised),
                               !.cleanup_workspace = ~PreservesWorkspace(run.raised)]
              ELSE [run EXCEPT !.pc = "finally"]
    /\ UNCHANGED <<data, data0, transcript, op, arg, ret, session>>

\* finally: shutil.rmtree(work_dir) when cleanup_workspace
Finally ==
    /\ run.pc = "finally"
    /\ run' = [run EXCEPT !.pc = "exit",
                          !.work_dir = IF run.cleanup_workspace THEN FALSE ELSE @]
    /\ UNCHANGED <<data, data0, transcript, op, arg, ret, session>>

\* sys.exit(exit_code), or the interpreter ends on the exception (status 1)
Exit ==
    /\ run.pc = "exit"
    /\ run' = [run EXCEPT !.pc = "exited",
                          !.status = IF run.raised = "none"
                                     THEN ExitStatus(run.exit_code) ELSE 1]
    /\ UNCHANGED <<data, data0, transcript, op, arg, ret, session>>

NextOuter ==
    \/ CreateWorkspace
    \/ Preflight
    \/ CreateVenv
    \/ LocateVenvPython
    \/ InstallDependencies
    \/ RunInner
    \/ Interrupt
    \/ UnexpectedError
    \/ Handle
    \/ Finally
    \/ Exit

SpecOuter == InitOuter /\ [][NextOuter]_vars

(***************************************************************************)
(* format_timestamp on its own: the argument is drawn from the values a    *)
(* caller can pass, then the function is applied to it.                    *)
(***************************************************************************)
\* a float of h hours, m minutes, s seconds, ms milliseconds and t ticks
Seconds(h, m, sec, ms, t) ==
    LET n == (m * 60 + sec) * TicksPerSecond + ms * TicksPerMs + t
    IN  IF h = 0 THEN Num(n) ELSE Long(h, n)

StampNumbers ==
    {Seconds(h, m, sec, ms, t) :
        h \in {0, 1, MaxHours - 1, MaxHours}, m \in {0, 59}, sec \in {0, 59},
        ms \in {0, 1, 999}, t \in {0, 4, 5, 6}}

StampInputs ==
    StampNumbers
      \cup {Num(-n) : n \in {1, 4, 5, 6, 15, TicksPerSecond, 3600 * TicksPerSecond}}
      \cup {Null, Str("2.0"), Str("abc"), Str(""), List(<<>>), Dict(EmptyDict),
            Huge, Inf, NegInf, NaN}

InitStamp ==
    /\ data = EmptyDoc
    /\ data0 = data
    /\ transcript = <<>>
    /\ op = ""
    /\ arg \in StampInputs
    /\ ret = NoRet
    /\ session = NoSession
    /\ run = NoRun

\* format_timestamp(seconds)
CallStamp ==
    /\ op = ""
    /\ LET r == format_timestamp(arg)
       IN  ret' = [exc |-> r.exc, value |-> r.value]
    /\ op' = "stamp"
    /\ UNCHANGED <<run, session, data, data0, transcript, arg>>

NextStamp == CallStamp

SpecStamp == InitStamp /\ [][NextStamp]_vars

(***************************************************************************)
(* speaker_namer.build_preview_lines.  A preview line built from a scored  *)
(* segment is a record of the parts its f-string joins; a plain-text line  *)
(* is a string.                                                            *)
(***************************************************************************)
PREVIEW_LIMIT == 20

Min(a, b) == IF a <= b THEN a ELSE b

\* mutant of the slice: it stops one element early
SliceToShort(seq, limit) == SubSeq(seq, 1, Min(Max(0, limit - 1), Len(seq)))

\* seq[:limit]
SliceTo(seq, limit) ==
    IF limit >= 0 THEN SubSeq(seq, 1, Min(limit, Len(seq)))
    ELSE SubSeq(seq, 1, Max(0, Len(seq) + limit))

\* key=lambda seg: seg.get("score", 0.0); the collector stores a float
ScoreOf(seg) == GetDefault(seg, "score", Num(0)).n

\* sorted(..., reverse=True) keeps the input order of elements with equal keys
ScorePos(segs, j) ==
    1 + Cardinality({k \in 1..Len(segs) :
            \/ ScoreOf(segs[k]) > ScoreOf(segs[j])
            \/ ScoreOf(segs[k]) = ScoreOf(segs[j]) /\ k < j})

SortedByScore(segs) ==
    [i \in 1..Len(segs) |-> segs[CHOOSE j \in 1..Len(segs) : ScorePos(segs, j) = i]]

\* key=lambda seg: seg.get("start") or 0.0
StartKey(seg) == IF Truthy(Get(seg, "start")) THEN Get(seg, "start") ELSE Num(0)

\* a < b for two keys, each a float or float('inf')
KeyLess(a, b) == a # Inf /\ (b = Inf \/ a.n < b.n)

\* top_segments.sort(key=...) is stable
StartPos(segs, j) ==
    1 + Cardinality({k \in 1..Len(segs) :
            \/ KeyLess(StartKey(segs[k]), StartKey(segs[j]))
            \/ ~KeyLess(StartKey(segs[j]), StartKey(segs[k])) /\ k < j})

SortedByStart(segs) ==
    [i \in 1..Len(segs) |-> segs[CHOOSE j \in 1..Len(segs) : StartPos(segs, j) = i]]

\* f"{score:.3f}" for a score in ticks
FormatScore(n) ==
    LET m == RoundMs(IF n < 0 THEN -n ELSE n)
    IN  (IF n < 0 THEN <<"-">> ELSE <<>>) \o Digits(m \div 1000) \o <<".">>
        \o ZeroPadded(m % 1000, 3)

\* the body of the loop over top_segments
PreviewLine(seg, speaker) ==
    LET start_ts == format_timestamp(Get(seg, "start"))
        end_ts == format_timestamp(Get(seg, "end"))
        score == IF Truthy(Get(seg, "score")) THEN Get(seg, "score").n ELSE 0
        text == IF Truthy(Get(seg, "text")) THEN Get(seg, "text").s ELSE ""
    IN  IF start_ts.exc # "none" THEN [exc |-> start_ts.exc]
        ELSE IF end_ts.exc # "none" THEN [exc |-> end_ts.exc]
        ELSE [exc |-> "none",
              line |-> [start_ts |-> start_ts.value, end_ts |-> end_ts.value,
                        speaker |-> speaker, text |-> text,
                        score |-> FormatScore(score)]]

build_preview_lines(speaker, text_lines, scored_segments, limit) ==
    IF scored_segments # <<>>
    THEN LET top_segments == SortedByStart(SliceTo(SortedByScore(scored_segments), limit))
             built == [i \in 1..Len(top_segments) |-> PreviewLine(top_segments[i], speaker)]
             failed == {i \in 1..Len(built) : built[i].exc # "none"}
         IN  IF failed # {}
             THEN [exc |-> built[CHOOSE i \in failed : \A k \in failed : i <= k].exc,
                   lines |-> <<>>]
             ELSE [exc |-> "none", lines |-> [i \in 1..Len(built) |-> built[i].line]]
    ELSE [exc |-> "none", lines |-> SliceTo(text_lines, limit)]

\* what the collector stores under start, and under score
PreviewStarts == {Null, Num(20000), Inf}
PreviewScores == {Num(5000), Num(9000)}

SegmentTexts == <<"one", "two", "three", "four", "five">>

\* the entry the collector appends for the i-th segment of the speaker
ScoredAt(i, start, score) ==
    [start |-> start,
     end |-> IF start \in {Null, Inf} THEN Null ELSE Num(start.n + TicksPerSecond),
     text |-> Str(SegmentTexts[i]),
     score |-> score]

PreviewTextLines == {"line1", "line2", "line3"}

Limits == (0..(MaxScored + 1)) \cup {PREVIEW_LIMIT}

InitPreview ==
    /\ \/ \E n \in 1..MaxScored :
             \E starts \in [1..n -> PreviewStarts], scores \in [1..n -> PreviewScores] :
                 arg = [speaker |-> "SPEAKER_01", text_lines |-> <<"line1", "line2">>,
                        scored_segments |->
                            [i \in 1..n |-> ScoredAt(i, starts[i], scores[i])]]
       \/ \E n \in 0..MaxLines :
             \E lines \in [1..n -> PreviewTextLines] :
                 arg = [speaker |-> "SPEAKER_01", text_lines |-> lines,
                        scored_segments |-> <<>>]
    /\ data = EmptyDoc
    /\ data0 = data
    /\ transcript = <<>>
    /\ op = ""
    /\ ret = NoRet
    /\ session = NoSession
    /\ run = NoRun

\* build_preview_lines(speaker, text_lines, scored_segments, limit)
CallPreview ==
    /\ op = ""
    /\ \E limit \in Limits :
        /\ arg' = [speaker |-> arg.speaker, text_lines |-> arg.text_lines,
                   scored_segments |-> arg.scored_segments, limit |-> limit]
        /\ ret' = build_preview_lines(arg.speaker, arg.text_lines,
                                      arg.scored_segments, limit)
    /\ op' = "preview"
    /\ UNCHANGED <<run, session, data, data0, transcript>>

NextPreview == CallPreview

SpecPreview == InitPreview /\ [][NextPreview]_vars

(***************************************************************************)
(* Vocabulary of the properties.                                           *)
(***************************************************************************)
Tag(seg) == Get(seg, "speaker")

Before == IF "segments" \in DOMAIN data0 /\ IsList(data0["segments"])
          THEN data0["segments"].v ELSE <<>>
After == IF "segments" \in DOMAIN data /\ IsList(data["segments"])
         THEN data["segments"].v ELSE <<>>

\* start and end as numbers, where they are numbers (an absent start counts as
\* 0, an absent end as the start)
NumericSpan(seg) ==
    /\ Float(GetDefault(seg, "start", Num(0))).exc = "none"
    /\ Float(GetDefault(seg, "end", GetDefault(seg, "start", Num(0)))).exc = "none"
StartOf(seg) == Float(GetDefault(seg, "start", Num(0))).n
EndOf(seg) == Float(GetDefault(seg, "end", GetDefault(seg, "start", Num(0)))).n
DurationOf(seg) == Max(0, EndOf(seg) - StartOf(seg))
IsShort(seg, max_short) == NumericSpan(seg) /\ DurationOf(seg) <= max_short

Smoothed == op = "smooth" /\ ret.exc = "none"

\* the permutations of 1..n
Perms == [n \in 0..MaxSegs |->
            {f \in [1..n -> 1..n] : \A i, j \in 1..n : f[i] = f[j] => i = j}]

\* a and b are the same segment up to the speaker field
SameButSpeaker(a, b) ==
    /\ DOMAIN a = DOMAIN b
    /\ \A k \in DOMAIN a : k # "speaker" => a[k] = b[k]

(***************************************************************************)
(* C3 as stated: after smoothing 3 or more segments, every short interior  *)
(* segment whose neighbours carry the same non-empty tag and whose own tag *)
(* differs from it, an absent own tag included, has the neighbours' tag.   *)
(* (Refuted: a segment without a tag is never relabelled.)                 *)
(***************************************************************************)
C3_AsStated ==
    (Smoothed /\ Len(After) >= 3) =>
        \A i \in 2..(Len(After) - 1) :
            (/\ IsShort(After[i], arg.n)
             /\ Truthy(Tag(After[i - 1]))
             /\ Tag(After[i - 1]) = Tag(After[i + 1]))
            => Tag(After[i]) = Tag(After[i - 1])

(***************************************************************************)
(* C3 amended: after smoothing 3 or more segments, every short interior    *)
(* segment i of the sorted sequence whose own tag is present (not None)    *)
(* and differs from the non-empty tag shared by its left neighbour (as the *)
(* pass left it) and its right neighbour (as the pass found it) has been   *)
(* given that tag; so no short interior segment with a tag of its own is   *)
(* left between two neighbours that share a different non-empty tag.  A    *)
(* call that does not return (a start that float() rejects, see C9) has    *)
(* 3 or more segments and leaves the sequence exactly as it was.           *)
(***************************************************************************)
C3_ShortOutlierRelabelled ==
    /\ (op = "smooth" /\ ret.exc # "none") =>
        /\ data = data0
        /\ Len(Before) >= 3
        /\ \E i \in 1..Len(Before) :
            Float(GetDefault(Before[i], "start", Num(0))).exc = ret.exc
    /\ (Smoothed /\ Len(After) >= 3) =>
        LET sorted == StableSorted(Before)
        IN  \A i \in 2..(Len(After) - 1) :
            /\ (/\ IsShort(sorted[i], arg.n)
                /\ Truthy(Tag(After[i - 1]))
                /\ Tag(After[i - 1]) = Tag(sorted[i + 1])
                /\ Tag(sorted[i]) # Null
                /\ Tag(sorted[i]) # Tag(After[i - 1]))
               => Tag(After[i]) = Tag(After[i - 1])
            /\ (/\ IsShort(After[i], arg.n)
                /\ Truthy(Tag(After[i - 1]))
                /\ Tag(After[i - 1]) = Tag(After[i + 1])
                /\ Tag(After[i]) # Null)
               => Tag(After[i]) = Tag(After[i - 1])

\* C3 witness: a short outlier between two segments of one speaker was relabelled
C3_Witness ==
    /\ Smoothed
    /\ Len(After) >= 3
    /\ \E i \in 2..(Len(After) - 1) :
        /\ IsShort(After[i], arg.n)
        /\ Tag(StableSorted(Before)[i]) = Str("SPEAKER_01")
        /\ Tag(After[i - 1]) = Str("SPEAKER_00")
        /\ Tag(After[i + 1]) = Str("SPEAKER_00")
        /\ Tag(After[i]) = Str("SPEAKER_00")

(***************************************************************************)
(* C4: smoothing changes only the order of the sequence and the speaker    *)
(* field of qualifying interior segments: the result is a rearrangement of *)
(* the input in which a segment whose tag changed is interior, numeric and *)
(* short, lies between two unchanged neighbours that carry the same        *)
(* non-empty tag, and now carries that tag; every other field of every     *)
(* segment is as before and every tag present afterwards was present       *)
(* before.                                                                 *)
(***************************************************************************)
C4_SmoothFrame ==
    op = "smooth" =>
        /\ Len(After) = Len(Before)
        /\ DOMAIN data = DOMAIN data0
        /\ \A k \in DOMAIN data : k # "segments" => data[k] = data0[k]
        /\ \E p \in Perms[Len(Before)] :
            LET n == Len(Before)
                old(i) == Before[p[i]]
            IN  \A i \in 1..n :
                /\ SameButSpeaker(After[i], old(i))
                /\ Tag(After[i]) \in {Tag(Before[j]) : j \in 1..n}
                /\ Tag(After[i]) # Tag(old(i)) =>
                    /\ 1 < i /\ i < n
                    /\ IsShort(old(i), arg.n)
                    /\ Tag(After[i - 1]) = Tag(old(i - 1))
                    /\ Tag(After[i + 1]) = Tag(old(i + 1))
                    /\ Truthy(Tag(old(i - 1)))
                    /\ Truthy(Tag(old(i + 1)))
                    /\ Tag(old(i - 1)) = Tag(old(i + 1))
                    /\ Tag(After[i]) = Tag(old(i - 1))

\* C4 witness: a call that reordered the list and relabelled one segment while
\* a long segment between two segments of another speaker kept its tag
C4_Witness ==
    /\ Smoothed
    /\ Len(After) = 3
    /\ After[1] = Before[3]
    /\ \E i \in 1..3 : Tag(After[2]) # Tag(Before[i]) /\ SameButSpeaker(After[2], Before[i])

(***************************************************************************)
(* C5: on a sequence of fewer than 3 segments smoothing changes neither    *)
(* the order of the segments nor any speaker tag: the document is left     *)
(* exactly as it was and the call returns.                                 *)
(***************************************************************************)
C5_ShortListUntouched ==
    (op = "smooth" /\ Len(Before) < 3) => (data = data0 /\ ret.exc = "none")

\* C5 witness: two segments supplied out of order went through the smoother
C5_Witness ==
    /\ op = "smooth"
    /\ Len(Before) = 2
    /\ NumericSpan(Before[1]) /\ NumericSpan(Before[2])
    /\ StartOf(Before[1]) > StartOf(Before[2])

(***************************************************************************)
(* C1 as stated: for every segment and target speaker the scorer returns   *)
(* the value of the first applicable signal in the order speaker_prob,     *)
(* speaker_probs[speaker], score, confidence, word-level mean,             *)
(* avg_logprob, no_speech_prob, duration (end > start), else 0.0.          *)
(* (Refuted by the uncaught OverflowError of C2: a field holding an        *)
(* integer beyond the float range makes the call raise instead.)           *)
(***************************************************************************)
\* a value that can be coerced to a number, and the signal it gives (a
\* sequence with the number, or the empty sequence)
Numeric(v) == v.t = "num" \/ (v.t = "str" /\ v.s \in DOMAIN NumericStrings)
Signal(v) == IF Numeric(v) THEN <<Float(v).n>> ELSE <<>>

\* the words that count for the speaker, and each one's value
WordSignal(word, speaker) ==
    IF ~IsDict(word) THEN <<>>
    ELSE IF Get(word.v, "speaker") \notin {Null, speaker} THEN <<>>
    ELSE LET all == Signal(Get(word.v, "speaker_prob")) \o Signal(Get(word.v, "prob"))
                    \o Signal(Get(word.v, "probability")) \o Signal(Get(word.v, "score"))
                    \o Signal(Get(word.v, "confidence"))
         IN  IF Len(all) = 0 THEN <<>> ELSE <<Head(all)>>

RECURSIVE WordSignals(_, _)
WordSignals(words, speaker) ==
    IF Len(words) = 0 THEN <<>>
    ELSE WordSignal(Head(words), speaker) \o WordSignals(Tail(words), speaker)

WordMeanSignal(seg, speaker) ==
    LET words == Get(seg, "words")
        vals == IF IsList(words) THEN WordSignals(words.v, speaker) ELSE <<>>
    IN  IF Len(vals) = 0 THEN <<>> ELSE <<Sum(vals) \div Len(vals)>>

DurationSignal(seg) ==
    IF Numeric(Get(seg, "start")) /\ Numeric(Get(seg, "end"))
       /\ Float(Get(seg, "end")).n > Float(Get(seg, "start")).n
    THEN <<Float(Get(seg, "end")).n - Float(Get(seg, "start")).n>>
    ELSE <<>>

\* the signals of a segment for a speaker, in priority order, 0.0 last
SignalsInOrder(seg, speaker) ==
    Signal(Get(seg, "speaker_prob"))
    \o (IF IsDict(Get(seg, "speaker_probs"))
        THEN Signal(Get(Get(seg, "speaker_probs").v, speaker.s)) ELSE <<>>)
    \o Signal(Get(seg, "score"))
    \o Signal(Get(seg, "confidence"))
    \o WordMeanSignal(seg, speaker)
    \o (IF Numeric(Get(seg, "avg_logprob"))
        THEN <<ExpClamped(Float(Get(seg, "avg_logprob")).n)>> ELSE <<>>)
    \o (IF Numeric(Get(seg, "no_speech_prob"))
        THEN <<Clamp01(10000 - Float(Get(seg, "no_speech_prob")).n)>> ELSE <<>>)
    \o DurationSignal(seg)
    \o <<0>>

C1_AsStated ==
    op = "score" =>
        /\ ret.exc = "none"
        /\ ret.value = Head(SignalsInOrder(data["segments"].v[arg.i], arg.speaker))

\* what holds of the code: whenever the call returns, the value is the first
\* applicable signal in the order above (the order itself is as stated)
C1_PriorityWhenReturns ==
    (op = "score" /\ ret.exc = "none") =>
        ret.value = Head(SignalsInOrder(data["segments"].v[arg.i], arg.speaker))

(***************************************************************************)
(* C2 as stated: extract_speaker_score is total, it returns a number and   *)
(* never raises whatever the fields hold, extreme numbers included.        *)
(* (Refuted: _safe_float catches TypeError and ValueError only, and        *)
(* float() of an integer beyond the float range raises OverflowError.)     *)
(***************************************************************************)
C2_AsStated == op = "score" => ret.exc = "none"

(***************************************************************************)
(* C6 as stated: the renderer returns exactly one line per segment and the *)
(* lines are in chronological order (non-decreasing start), for 1 and 2    *)
(* segments and for segments supplied out of order.                        *)
(* (Refuted: the sort is part of the smoother and is skipped for fewer     *)
(* than 3 segments.)                                                       *)
(***************************************************************************)
\* the start of a segment, a missing or malformed one counted as zero
StartOrZero(seg) ==
    IF Float(Get(seg, "start")).exc = "none" THEN Float(Get(seg, "start")).n ELSE 0

C6_AsStated ==
    (op = "render" /\ ret.exc = "none") =>
        /\ Len(ret.lines) = Len(Before)
        /\ \A i, j \in 1..Len(After) :
            i < j => StartOrZero(After[i]) <= StartOrZero(After[j])

(***************************************************************************)
(* C7: the renderer applies the Label Smoother before rendering: line i    *)
(* shows the tag that smoothing (threshold 0.7) leaves on segment i, and   *)
(* the literal UNKNOWN when that segment has no tag (none, or an empty     *)
(* one); a call that returns gives one line per segment.                   *)
(***************************************************************************)
C7_RenderShowsSmoothedTag ==
    op = "render" =>
        LET smoothed == smooth_speaker_labels(Before, DefaultMaxShort).segs
        IN  /\ ret.exc = "none" => Len(ret.lines) = Len(Before)
            /\ \A i \in 1..Len(ret.lines) :
                ret.lines[i].speaker =
                    IF Tag(smoothed[i]) \in {Null, Str("")} THEN Str("UNKNOWN")
                    ELSE Tag(smoothed[i])

\* C7 witness: a short SPEAKER_01 segment between two SPEAKER_00 segments is
\* rendered as SPEAKER_00
C7_Witness ==
    /\ op = "render"
    /\ ret.exc = "none"
    /\ Len(ret.lines) = 3
    /\ Tag(Before[2]) = Str("SPEAKER_01")
    /\ \A i \in 1..3 : NumericSpan(Before[i]) /\ ret.lines[i].speaker = Str("SPEAKER_00")
    /\ StartOf(Before[1]) <= StartOf(Before[2])
    /\ StartOf(Before[2]) <= StartOf(Before[3])

(***************************************************************************)
(* C8 as stated: the renderer, the grouper and the structured relabeler    *)
(* take a document whose segments key is missing, null or not a list as an *)
(* empty sequence, without raising: no lines, an empty mapping, the        *)
(* document unchanged.                                                     *)
(* (Refuted: the grouper iterates data.get("segments", []) without a type  *)
(* check, and a null or a number is not iterable.)                         *)
(***************************************************************************)
C8_AsStated ==
    (op \in {"render", "group", "relabel_json"} /\ data0 \in MalformedDocs) =>
        /\ ret.exc = "none"
        /\ data = data0
        /\ op = "render" => ret.lines = <<>>
        /\ op = "group" => ret.scored = NoGroups
        /\ op = "relabel_json" => ret.data = data0

(***************************************************************************)
(* C9 as stated: the smoother and the renderer never raise because of a    *)
(* malformed or missing start or end: the call completes.                  *)
(* (Refuted: the sort key float(s.get("start", 0.0)) is computed outside   *)
(* any try block, for lists of 3 or more segments.)                        *)
(***************************************************************************)
C9_AsStated == op \in {"smooth", "render"} => ret.exc = "none"

(***************************************************************************)
(* C10: replace_speakers_in_text replaces every standalone occurrence of a *)
(* Speaker Tag (SPEAKER_ and exactly two digits, between word boundaries)  *)
(* that is a key of the mapping with its mapped name and leaves every      *)
(* other character unchanged; occurrences are those of the original text,  *)
(* so a name that is itself a mapped tag is not substituted again.         *)
(***************************************************************************)
\* a standalone Speaker Tag starts at position p of t
StandaloneTagAt(t, p) ==
    /\ p >= 1
    /\ p + 9 <= Len(t)
    /\ SubSeq(t, p, p + 7) = SpeakerPrefix
    /\ {t[p + 8], t[p + 9]} \subseteq DigitChars
    /\ (p > 1 => t[p - 1] \notin WordChars)
    /\ (p + 9 < Len(t) => t[p + 10] \notin WordChars)

TagAt(t, p) == TagString(t[p + 8], t[p + 9])

\* position p starts a standalone tag that the mapping renames
RenamedAt(t, p, m) == StandaloneTagAt(t, p) /\ TagAt(t, p) \in DOMAIN m

\* what position p of the original text contributes to the result
Contribution(t, p, m) ==
    IF RenamedAt(t, p, m) THEN Chars(m[TagAt(t, p)])
    ELSE IF \E q \in (p - 9)..(p - 1) : RenamedAt(t, q, m) THEN <<>>
    ELSE <<t[p]>>

RECURSIVE Contributions(_, _, _)
Contributions(t, p, m) ==
    IF p > Len(t) THEN <<>> ELSE Contribution(t, p, m) \o Contributions(t, p + 1, m)

C10_TextRelabelledOnce ==
    op = "relabel_text" => ret.text = Contributions(transcript, 1, arg)

\* C10 witness: under a mapping that swaps two tags, a standalone SPEAKER_00
\* becomes SPEAKER_01 and stays so, and the SPEAKER_01 that a third digit
\* follows is left alone
C10_Witness ==
    /\ op = "relabel_text"
    /\ arg = [SPEAKER_00 |-> "SPEAKER_01", SPEAKER_01 |-> "SPEAKER_00"]
    /\ transcript = Chars("SPEAKER_00") \o <<" ">> \o Chars("SPEAKER_01") \o <<"0">>
    /\ ret.text = Chars("SPEAKER_01") \o <<" ">> \o Chars("SPEAKER_01") \o <<"0">>

(***************************************************************************)
(* C11: replace_speakers_in_json changes only the speaker field of the     *)
(* segments whose speaker is a key of the mapping, setting it to the       *)
(* mapped name: the returned document is the caller's document, the        *)
(* number and order of the segments, every other field of every segment,   *)
(* the segments whose speaker is no key of the mapping and every sibling   *)
(* top-level key are as before.                                            *)
(***************************************************************************)
C11_RelabelFrame ==
    op = "relabel_json" =>
        /\ ret.data = data
        /\ DOMAIN data = DOMAIN data0
        /\ \A k \in DOMAIN data : k # "segments" => data[k] = data0[k]
        /\ Before = <<>> => data = data0
        /\ Len(After) = Len(Before)
        /\ \A i \in 1..Len(Before) :
            IF IsStr(Tag(Before[i])) /\ Tag(Before[i]).s \in DOMAIN arg
            THEN /\ SameButSpeaker(After[i], Before[i])
                 /\ Tag(After[i]) = Str(arg[Tag(Before[i]).s])
            ELSE After[i] = Before[i]

\* C11 witness: a document with a SPEAKER_00 segment, a SPEAKER_01 segment and
\* a segment without a tag was relabelled with a mapping that names only
\* SPEAKER_00
C11_Witness ==
    /\ op = "relabel_json"
    /\ ret.exc = "none"
    /\ arg = [SPEAKER_00 |-> "HOST"]
    /\ Len(Before) = 3
    /\ Tag(Before[1]) = Str("SPEAKER_00") /\ Tag(After[1]) = Str("HOST")
    /\ Tag(Before[2]) = Str("SPEAKER_01") /\ Tag(After[2]) = Str("SPEAKER_01")
    /\ "speaker" \notin DOMAIN Before[3] /\ "speaker" \notin DOMAIN After[3]

(***************************************************************************)
(* C13 as stated: for every input string the output of                     *)
(* transliterate_to_english consists only of the characters A-Z, 0-9 and   *)
(* underscore, also for letters that are neither Latin nor in the Cyrillic *)
(* table.                                                                  *)
(* (Refuted: \w matches the letters of every script, so such a letter is   *)
(* kept, and upper() leaves it outside ASCII.)                             *)
(***************************************************************************)
AsciiNameChars ==
    DigitChars \cup {"_"}
    \cup {"A", "B", "C", "D", "E", "F", "G", "H", "I", "J", "K", "L", "M", "N", "O",
          "P", "Q", "R", "S", "T", "U", "V", "W", "X", "Y", "Z"}

C13_AsStated ==
    op = "normalize" => \A i \in 1..Len(ret.text) : ret.text[i] \in AsciiNameChars

(***************************************************************************)
(* C14 as stated: the output of transliterate_to_english has no leading    *)
(* underscore, no trailing underscore and no two adjacent underscores,     *)
(* also when the input holds underscores next to spaces or hyphens.        *)
(* (Refuted: only runs of hyphens and whitespace are collapsed, so an      *)
(* underscore of the input next to such a run gives two underscores.)      *)
(***************************************************************************)
C14_AsStated ==
    op = "normalize" =>
        /\ Len(ret.text) > 0 => ret.text[1] # "_" /\ ret.text[Len(ret.text)] # "_"
        /\ \A i \in 1..(Len(ret.text) - 1) : ~(ret.text[i] = "_" /\ ret.text[i + 1] = "_")

\* what does hold of the output: no leading and no trailing underscore, and
\* no hyphen, whitespace or punctuation
C14_EndsAndSeparators ==
    op = "normalize" =>
        /\ Len(ret.text) > 0 => ret.text[1] # "_" /\ ret.text[Len(ret.text)] # "_"
        /\ \A i \in 1..Len(ret.text) : ret.text[i] \notin Separators \cup {"!"}

(***************************************************************************)
(* C20 as stated: collect_speaker_lines returns, for every Speaker Tag of  *)
(* the lines, exactly the subsequence of the lines that contain the tag,   *)
(* each such line once and in the original order, also when a line holds   *)
(* the tag more than once; the order list names each tag once, in order of *)
(* first occurrence.                                                       *)
(* (Refuted: the line is appended once per match, so a line that holds a   *)
(* tag twice is listed twice under it.)                                    *)
(***************************************************************************)
\* the lines given to the call
InputLines == SplitLines(transcript)

\* the tag occurs as a standalone Speaker Tag in the line
LineHasTag(line, tag) ==
    \E p \in 1..Len(line) : StandaloneTagAt(line, p) /\ TagAt(line, p) = tag

TagsOfLines ==
    {TagAt(InputLines[i], p) :
        <<i, p>> \in {ip \in (1..Len(InputLines)) \X (1..(MaxTokens + 1) * 10) :
                        StandaloneTagAt(InputLines[ip[1]], ip[2])}}

\* the first place (line, position) at which a tag occurs
FirstPlace(tag) ==
    CHOOSE ip \in (1..Len(InputLines)) \X (1..(MaxTokens + 1) * 10) :
        /\ StandaloneTagAt(InputLines[ip[1]], ip[2])
        /\ TagAt(InputLines[ip[1]], ip[2]) = tag
        /\ \A i \in 1..ip[1], p \in 1..(MaxTokens + 1) * 10 :
            (StandaloneTagAt(InputLines[i], p) /\ TagAt(InputLines[i], p) = tag)
                => (i = ip[1] /\ p >= ip[2])

\* the order list names each tag of the lines once, in order of first occurrence
OrderOfFirstOccurrence(ordered) ==
    /\ {ordered[i] : i \in 1..Len(ordered)} = TagsOfLines
    /\ \A i, j \in 1..Len(ordered) :
        i < j =>
            \/ FirstPlace(ordered[i])[1] < FirstPlace(ordered[j])[1]
            \/ /\ FirstPlace(ordered[i])[1] = FirstPlace(ordered[j])[1]
               /\ FirstPlace(ordered[i])[2] < FirstPlace(ordered[j])[2]

C20_AsStated ==
    op = "collect" =>
        /\ OrderOfFirstOccurrence(ret.ordered)
        /\ DOMAIN ret.speaker_lines.vals = TagsOfLines
        /\ \A tag \in TagsOfLines :
            ret.speaker_lines.vals[tag] =
                SelectSeq(InputLines, LAMBDA line : LineHasTag(line, tag))

\* what does hold of the code: the order list is as stated, and under each tag
\* the lines that contain it stand in the original order, each at least once
C20_OrderAndLines ==
    op = "collect" =>
        /\ OrderOfFirstOccurrence(ret.ordered)
        /\ ret.speaker_lines.keys = ret.ordered
        /\ DOMAIN ret.speaker_lines.vals = TagsOfLines
        /\ \A tag \in TagsOfLines :
            LET listed == ret.speaker_lines.vals[tag]
            IN  /\ \A k \in 1..Len(listed) : LineHasTag(listed[k], tag)
                /\ \A i \in 1..Len(InputLines) :
                    LineHasTag(InputLines[i], tag) =>
                        \E k \in 1..Len(listed) : listed[k] = InputLines[i]

(***************************************************************************)
(* C19: whenever collect_scored_segments_by_speaker returns, its result    *)
(* partitions the segments that have a string speaker tag: the keys are    *)
(* those tags, each once, in order of first appearance; under each key     *)
(* stand exactly the segments with that tag, in their original order, each *)
(* as its start, end, stripped text and its score for that tag; a segment  *)
(* without a string tag is under no key.                                   *)
(***************************************************************************)
\* the indices of the segments tagged with the string key, in order
IndicesTagged(key) ==
    SelectSeq([i \in 1..Len(Before) |-> i], LAMBDA i : Tag(Before[i]) = Str(key))

\* the entry the result holds for a segment under its tag
EntryOf(seg) ==
    [start |-> IF Numeric(Get(seg, "start")) THEN Num(Float(Get(seg, "start")).n) ELSE Null,
     end |-> IF Numeric(Get(seg, "end")) THEN Num(Float(Get(seg, "end")).n) ELSE Null,
     text |-> IF Truthy(Get(seg, "text")) THEN Strip(Get(seg, "text").s) ELSE "",
     score |-> extract_speaker_score(seg, Tag(seg)).value]

C19_GroupsPartition ==
    (op = "group" /\ ret.exc = "none") =>
        LET keys == ret.scored.keys
            vals == ret.scored.vals
        IN  /\ DOMAIN vals = {Tag(Before[i]).s : i \in {j \in 1..Len(Before) : IsStr(Tag(Before[j]))}}
            /\ {keys[a] : a \in 1..Len(keys)} = DOMAIN vals
            /\ \A a, b \in 1..Len(keys) :
                a < b => /\ keys[a] # keys[b]
                         /\ IndicesTagged(keys[a])[1] < IndicesTagged(keys[b])[1]
            /\ \A key \in DOMAIN vals :
                vals[key] = [n \in 1..Len(IndicesTagged(key)) |->
                                EntryOf(Before[IndicesTagged(key)[n]])]

\* C19 witness: of four segments the first and the last are SPEAKER_01, the
\* second has no tag and the third is SPEAKER_00
C19_Witness ==
    /\ op = "group"
    /\ ret.exc = "none"
    /\ Len(Before) = 4
    /\ "speaker" \notin DOMAIN Before[2]
    /\ ret.scored.keys = <<"SPEAKER_01", "SPEAKER_00">>
    /\ Len(ret.scored.vals["SPEAKER_01"]) = 2
    /\ ret.scored.vals["SPEAKER_01"][1].text = "hello"
    /\ ret.scored.vals["SPEAKER_01"][2].text = "x"
    /\ ret.scored.vals["SPEAKER_01"][1].score = 20000

(***************************************************************************)
(* Vocabulary of the session properties.                                   *)
(***************************************************************************)
SessionStarted == session.pc # "idle"

\* the session is waiting for a line of the operator
Asking == session.pc \in {"prompting", "confirming"}

\* both NAMED_ files that the session writes are written
Applied == session.pc = "applied"

\* the tag the operator is asked about
CurrentSpeaker == session.speaker_order[session.index]

\* the tags of the transcript that are bound in the mapping
Confirmed == DOMAIN session.mapping

\* the speaker values of the segments of a document
SpeakersOf(doc) ==
    IF "segments" \in DOMAIN doc /\ IsList(doc["segments"])
    THEN {Tag(doc["segments"].v[i]) : i \in 1..Len(doc["segments"].v)}
    ELSE {}

\* the Speaker Tags that stand in a text
TagsInText(text) ==
    {TagAt(text, p) : p \in {q \in 1..Len(text) : StandaloneTagAt(text, q)}}

\* the Speaker Tags of the documents, as strings
TagNames == {tag.s : tag \in SpeakerTags}

(***************************************************************************)
(* C12 as stated: once a session has written its NAMED_ files, applying    *)
(* the relabeler again with the session's mapping changes neither the      *)
(* NAMED_ text nor the NAMED_ document.  (Refuted: a name the operator     *)
(* enters may itself normalize to a Speaker Tag that the mapping binds.)   *)
(***************************************************************************)
C12_AsStated ==
    (SessionStarted /\ Applied) =>
        /\ replace_speakers_in_text(session.named_text.content, session.mapping)
             = session.named_text.content
        /\ session.has_json =>
             replace_speakers_in_json(session.named_json.content, session.mapping).data
               = session.named_json.content

(***************************************************************************)
(* C15: applying is one batch step after all tags are resolved.  While a   *)
(* Speaker Tag of the transcript is unconfirmed no NAMED_ file is written, *)
(* the NAMED_ document is never written before the NAMED_ text, and a      *)
(* session that stopped at a prompt, found no tag or failed before the     *)
(* prompts has written no file.                                            *)
(***************************************************************************)
C15_BatchApply ==
    SessionStarted =>
        /\ (session.named_text # NoFile \/ session.named_json # NoFile) =>
             /\ TagsOfLines \subseteq Confirmed
             /\ session.pc \in {"applying_json", "applied"}
        /\ session.named_json # NoFile => session.named_text # NoFile
        /\ session.pc \in {"stopped", "no_tags", "raised", "prompting", "confirming"} =>
             session.named_text = NoFile /\ session.named_json = NoFile

\* C15 witness: the session stopped after the first of two tags was confirmed
\* and has written nothing
C15_Witness ==
    /\ session.pc = "stopped"
    /\ session.has_json
    /\ TagsOfLines = {"SPEAKER_00", "SPEAKER_01"}
    /\ Cardinality(Confirmed) = 1
    /\ session.named_text = NoFile
    /\ session.named_json = NoFile

(***************************************************************************)
(* C16: the tags of the transcript are offered in order of first           *)
(* appearance and a tag enters the mapping only through one 'y' answer     *)
(* (the answer is read stripped and in lower case).  The tags confirmed    *)
(* are exactly those before the one being asked about; the mapping changes *)
(* only at a 'y' answer, which binds the tag asked about to the            *)
(* normalization of the last name entered and goes on to the next tag or   *)
(* to applying; an 'e' answer returns to prompting and records nothing;    *)
(* any other answer keeps the session confirming the same candidate.       *)
(***************************************************************************)
C16_PromptProtocol ==
    [][(SessionStarted /\ session.pc # "raised") =>
        LET answer == LowerAll(StripSpaces(session'.line))
            order == session.speaker_order
            answered == session.pc = "confirming" /\ session'.pc # "stopped"
        IN  /\ OrderOfFirstOccurrence(order)
            /\ session'.speaker_order = order
            /\ Asking => Confirmed = {order[j] : j \in 1..(session.index - 1)}
            /\ session'.mapping # session.mapping => answered /\ answer = <<"y">>
            /\ (answered /\ answer = <<"y">>) =>
                 /\ CurrentSpeaker \notin Confirmed
                 /\ session'.mapping =
                      Bind(session.mapping, CurrentSpeaker,
                           StringOf(transliterate_to_english(session.raw_name)))
                 /\ \/ session'.pc = "prompting" /\ session'.index = session.index + 1
                    \/ session'.pc = "applying" /\ session.index = Len(order)
            /\ (answered /\ answer = <<"e">>) =>
                 /\ session'.pc = "prompting"
                 /\ session'.index = session.index
            /\ (answered /\ answer \notin {<<"y">>, <<"e">>}) =>
                 /\ session'.pc = "confirming"
                 /\ session'.index = session.index
                 /\ session'.raw_name = session.raw_name
                 /\ session'.normalized = session.normalized
            /\ (session.pc = "prompting" /\ session'.pc = "confirming") =>
                 /\ session'.index = session.index
                 /\ session'.raw_name = StripSpaces(session'.line)
                 /\ session'.normalized = transliterate_to_english(session'.raw_name)
    ]_vars

\* C16 witness: SPEAKER_01 stands first in the transcript and was confirmed
\* first; for SPEAKER_00 the operator has just answered 'e' to a candidate
C16_Witness ==
    /\ session.pc = "prompting"
    /\ session.speaker_order = <<"SPEAKER_01", "SPEAKER_00">>
    /\ session.index = 2
    /\ Confirmed = {"SPEAKER_01"}
    /\ session.line = <<"e">>
    /\ session.raw_name # <<>>

(***************************************************************************)
(* C17 as stated: every value of the mapping at applying is a non-empty    *)
(* string.  (Refuted: a name made only of symbols normalizes to the empty  *)
(* string and is recorded on 'y'.)                                         *)
(***************************************************************************)
C17_AsStated ==
    (SessionStarted /\ session.pc \in {"applying", "applying_json", "applied"}) =>
        \A speaker \in Confirmed : session.mapping[speaker] # ""

\* Lemma: an empty or blank name is asked again and recorded nowhere
C17_BlankNameAskedAgain ==
    [][(session.pc = "prompting" /\ session'.pc # "stopped"
          /\ StripSpaces(session'.line) = <<>>) =>
            /\ session'.pc = "prompting"
            /\ session'.mapping = session.mapping
            /\ session'.index = session.index]_vars

(***************************************************************************)
(* C18 as stated: after both NAMED_ files are written, with names that are *)
(* neither empty nor Speaker Tags themselves, no Speaker Tag of the inputs *)
(* (of the transcript or of a segment of the JSON document) stands in the  *)
(* NAMED_ text or is the speaker of a segment of the NAMED_ document.      *)
(* (Refuted: a tag that occurs only in the JSON document is never asked    *)
(* about and stays.)                                                       *)
(***************************************************************************)
C18_AsStated ==
    (/\ SessionStarted
     /\ Applied
     /\ session.has_json
     /\ \A speaker \in Confirmed : session.mapping[speaker] \notin TagNames \cup {""}) =>
        LET inputs == TagsInText(transcript)
                        \cup {v.s : v \in {w \in SpeakersOf(data) : IsStr(w)}}
        IN  /\ TagsInText(session.named_text.content) \cap inputs = {}
            /\ {v.s : v \in {w \in SpeakersOf(session.named_json.content) : IsStr(w)}}
                 \cap inputs \cap TagNames = {}

\* Lemma: the tags of the transcript are all bound, and none of them is left
\* in the NAMED_ text
C18_TranscriptTagsNamed ==
    (/\ SessionStarted
     /\ Applied
     /\ \A speaker \in Confirmed : session.mapping[speaker] \notin TagNames \cup {""}) =>
        /\ Confirmed = TagsInText(transcript)
        /\ TagsInText(session.named_text.content) = {}

(***************************************************************************)
(* Vocabulary of the format_timestamp properties.                          *)
(***************************************************************************)
Stamped == op = "stamp"

ZeroStamp == <<"0", "0", ":", "0", "0", ":", "0", "0", ".", "0", "0", "0">>

\* the argument is missing, cannot be converted by float(), or is negative
MissingInput == arg = Null
NotConvertible == arg.t \in {"str", "list", "dict", "huge"} /\ Float(arg).exc # "none"
NegativeInput == \/ arg.t = "num" /\ arg.n < 0
                 \/ arg.t = "neginf"

\* the number a sequence of decimal digits writes
RECURSIVE DigitsValue(_)
DigitsValue(chars) ==
    IF Len(chars) = 0 THEN 0
    ELSE 10 * DigitsValue(SubSeq(chars, 1, Len(chars) - 1))
         + (CHOOSE d \in 0..9 : DigitChar(d) = <<chars[Len(chars)]>>)

AllDigits(chars) == \A i \in 1..Len(chars) : chars[i] \in DigitChars

\* the fields of an output, split at the last two colons and the point
StampFields(value) ==
    LET n == Len(value)
    IN  [hours |-> SubSeq(value, 1, n - 10),
         minutes |-> SubSeq(value, n - 8, n - 7),
         secs |-> SubSeq(value, n - 5, n - 4),
         ms |-> SubSeq(value, n - 2, n),
         marks |-> <<value[n - 9], value[n - 6], value[n - 3]>>]

(***************************************************************************)
(* C23 as stated: format_timestamp returns a string for every input and    *)
(* never raises.  (Refuted: an infinity and an integer beyond the float    *)
(* range raise OverflowError.)                                             *)
(***************************************************************************)
C23_AsStated == Stamped => ret.exc = "none"

\* Lemma: every other input, NaN included, gives a string
C23_TotalOnFinite ==
    (Stamped /\ arg.t \notin {"inf", "neginf", "huge"}) => ret.exc = "none"

(***************************************************************************)
(* C24 as stated: format_timestamp returns 00:00:00.000 for every missing  *)
(* input, every input that float() cannot convert and every negative       *)
(* input.  (Refuted: minus infinity and an integer beyond the float range  *)
(* raise OverflowError.)                                                   *)
(***************************************************************************)
C24_AsStated ==
    (Stamped /\ (MissingInput \/ NotConvertible \/ NegativeInput)) =>
        ret.exc = "none" /\ ret.value = ZeroStamp

\* Lemma: whenever the function returns for such an input, it returns zero
C24_ZeroWhenReturns ==
    (Stamped /\ ret.exc = "none" /\ (MissingInput \/ NotConvertible \/ NegativeInput)) =>
        ret.value = ZeroStamp

(***************************************************************************)
(* C25 as stated: every output of format_timestamp has the shape           *)
(* HH:MM:SS.mmm with exactly 2 digits of hours, 2 of minutes below 60, 2   *)
(* of seconds below 60 and 3 of milliseconds, and the fields add up to the *)
(* input rounded to the nearest millisecond.  (Refuted: from 100 hours on  *)
(* the hours take 3 digits or more.)                                       *)
(***************************************************************************)
C25_AsStated ==
    (Stamped /\ ret.exc = "none") =>
        LET fields == StampFields(ret.value)
        IN  /\ Len(ret.value) = 12
            /\ fields.marks = <<":", ":", ".">>
            /\ AllDigits(fields.hours \o fields.minutes \o fields.secs \o fields.ms)
            /\ DigitsValue(fields.minutes) < 60
            /\ DigitsValue(fields.secs) < 60

\* Lemma: the hours have at least 2 digits, the other fields are as stated, and
\* the fields add up to the input rounded to the nearest millisecond (half to
\* even), zero for a negative or unconvertible input
C25_FieldsAddUp ==
    (Stamped /\ ret.exc = "none") =>
        LET fields == StampFields(ret.value)
            whole == IF arg.t = "long" THEN arg.h ELSE 0
            part == CASE arg.t = "long" -> RoundMs(arg.n)
                      [] arg.t \in {"num", "str"} /\ Float(arg).exc = "none" ->
                            Max(0, RoundMs(Float(arg).n))
                      [] OTHER -> 0
        IN  /\ Len(ret.value) >= 12
            /\ Len(fields.hours) >= 2
            /\ fields.marks = <<":", ":", ".">>
            /\ AllDigits(fields.hours \o fields.minutes \o fields.secs \o fields.ms)
            /\ DigitsValue(fields.minutes) < 60
            /\ DigitsValue(fields.secs) < 60
            /\ (DigitsValue(fields.hours) - whole) * 3600000
                 + DigitsValue(fields.minutes) * 60000
                 + DigitsValue(fields.secs) * 1000
                 + DigitsValue(fields.ms)
               = part

(***************************************************************************)
(* C26: in the outer stage the workspace created for the run is removed    *)
(* before the process exits whenever the venv run failed with              *)
(* PipelineError or DependencyError, was interrupted, or returned; it is   *)
(* left in place only after a DependencyInstallationError; and after every *)
(* failure (an exception, or a return code of the inner run other than 0)  *)
(* the exit status is not 0.                                               *)
(***************************************************************************)
C26_WorkspaceCleanup ==
    run.pc \in {"exit", "exited"} =>
        /\ run.outcome # "running"
        /\ run.work_dir <=> run.outcome = "DependencyInstallationError"
        /\ (run.pc = "exited" /\ run.outcome # "completed") => run.status # 0
        /\ (run.pc = "exited" /\ run.outcome = "completed") => run.status = 0

\* C26 witness: the venv run failed with PipelineError, the workspace is gone
\* and the process has exited with status 1
C26_Witness ==
    /\ run.pc = "exited"
    /\ run.outcome = "PipelineError"
    /\ ~run.work_dir
    /\ run.status = 1

(***************************************************************************)
(* C27: when none of speaker_prob, speaker_probs[speaker], score and       *)
(* confidence of the segment is numeric, the scorer returns the mean of    *)
(* the values of the contributing words: the words whose own speaker is    *)
(* absent or the target speaker and that have a numeric field, each with   *)
(* its first numeric field in the order speaker_prob, prob, probability,   *)
(* score, confidence; a word tagged with another speaker never             *)
(* contributes; when no word contributes it returns what avg_logprob and   *)
(* the later signals give.                                                 *)
(***************************************************************************)
ScoredSegment == data["segments"].v[arg.i]

\* a number or a string that reads as one (an integer beyond the float range
\* is a number too)
IsNumber(v) == Numeric(v) \/ v.t = "huge"

NoSegmentLevelSignal ==
    /\ ~IsNumber(Get(ScoredSegment, "speaker_prob"))
    /\ ~(/\ IsDict(Get(ScoredSegment, "speaker_probs"))
         /\ IsNumber(Get(Get(ScoredSegment, "speaker_probs").v, arg.speaker.s)))
    /\ ~IsNumber(Get(ScoredSegment, "score"))
    /\ ~IsNumber(Get(ScoredSegment, "confidence"))

WordsOf(seg) == IF IsList(Get(seg, "words")) THEN Get(seg, "words").v ELSE <<>>

\* the positions of the contributing words, in order
Contributors(seg, speaker) ==
    SelectSeq([i \in 1..Len(WordsOf(seg)) |-> i],
              LAMBDA i : LET word == WordsOf(seg)[i]
                         IN  /\ IsDict(word)
                             /\ Get(word.v, "speaker") \in {Null, speaker}
                             /\ \E k \in 1..Len(WordScoreKeys) :
                                    Numeric(Get(word.v, WordScoreKeys[k])))

\* the value of a contributing word: its first numeric field
WordValue(word) ==
    LET first == CHOOSE k \in 1..Len(WordScoreKeys) :
                    /\ Numeric(Get(word.v, WordScoreKeys[k]))
                    /\ \A j \in 1..(k - 1) : ~Numeric(Get(word.v, WordScoreKeys[j]))
    IN  Float(Get(word.v, WordScoreKeys[first])).n

WordMean(seg, speaker) ==
    LET at == Contributors(seg, speaker)
    IN  Sum([n \in 1..Len(at) |-> WordValue(WordsOf(seg)[at[n]])]) \div Len(at)

\* what avg_logprob, no_speech_prob, the duration and the final 0.0 give
LaterSignals(seg) ==
    (IF Numeric(Get(seg, "avg_logprob"))
     THEN <<ExpClamped(Float(Get(seg, "avg_logprob")).n)>> ELSE <<>>)
    \o (IF Numeric(Get(seg, "no_speech_prob"))
        THEN <<Clamp01(10000 - Float(Get(seg, "no_speech_prob")).n)>> ELSE <<>>)
    \o DurationSignal(seg)
    \o <<0>>

WordRule ==
    IF Len(Contributors(ScoredSegment, arg.speaker)) > 0
    THEN ret.value = WordMean(ScoredSegment, arg.speaker)
    ELSE ret.value = Head(LaterSignals(ScoredSegment))

SmoothedAgain == op = "smooth_again"

\* the segments before the first call
Original == ret.original["segments"].v

\* positions a..b of the original list are a chain: 3 or more consecutive
\* segments, short for the threshold, with tags other than the tag that the
\* segments on both sides of the chain carry
IsChain(a, b) ==
    /\ 1 < a
    /\ a + 2 <= b
    /\ b < Len(Original)
    /\ Tag(Original[a - 1]) = Tag(Original[b + 1])
    /\ \A i \in a..b : /\ IsShort(Original[i], arg.n)
                       /\ Tag(Original[i]) # Tag(Original[a - 1])

Chains == {ab \in (1..MaxChain) \X (1..MaxChain) : IsChain(ab[1], ab[2])}

Previewed == op = "preview"

Scored == arg.scored_segments

\* the scored segments the returned lines were built from
Selected == {i \in 1..Len(Scored) : \E p \in 1..Len(ret.lines) :
                ret.lines[p].text = Scored[i].text.s}

\* the scored segment behind the p-th returned line
SourceOf(p) == CHOOSE i \in 1..Len(Scored) : ret.lines[p].text = Scored[i].text.s

\* the selection keeps the best scores, the earlier segment winning a tie, and
\* the lines come in the order of start, a missing start counted as 0.0
TopByScoreInStartOrder ==
    /\ Len(ret.lines) = Min(arg.limit, Len(Scored))
    /\ Cardinality(Selected) = Len(ret.lines)
    /\ \A i \in Selected : \A j \in (1..Len(Scored)) \ Selected :
        \/ ScoreOf(Scored[j]) < ScoreOf(Scored[i])
        \/ ScoreOf(Scored[j]) = ScoreOf(Scored[i]) /\ i < j
    /\ \A p, q \in 1..Len(ret.lines) :
        p < q => ~KeyLess(StartKey(Scored[SourceOf(q)]), StartKey(Scored[SourceOf(p)]))

(***************************************************************************)
(* C21 as stated: when a speaker has at least one scored segment,          *)
(* build_preview_lines returns min(limit, number of scored segments)       *)
(* lines, for segments chosen so that no unselected segment has a strictly *)
(* higher score than a selected one (the earlier segment winning a tie),   *)
(* in chronological order of start, a missing start counted as 0.0.        *)
(* (Refuted: a selected segment whose start or end is infinite makes the   *)
(* call raise OverflowError.)                                              *)
(***************************************************************************)
C21_AsStated ==
    (Previewed /\ Scored # <<>>) => (ret.exc = "none" /\ TopByScoreInStartOrder)

\* what holds at every return of the function on scored segments
C21_TopWhenReturns ==
    (Previewed /\ Scored # <<>> /\ ret.exc = "none") => TopByScoreInStartOrder

\* the call raises exactly when a selected segment has an infinite start
C21_RaisesOnInfiniteStart ==
    (Previewed /\ Scored # <<>>) =>
        (ret.exc = "OverflowError" <=>
            \E i \in 1..Len(Scored) :
                /\ Scored[i].start = Inf
                /\ ScorePos(Scored, i) <= arg.limit)

(***************************************************************************)
(* C22: when a speaker has no scored segments, build_preview_lines returns *)
(* exactly the first limit plain-text lines of that speaker, unchanged and *)
(* in their original order (all of them when there are fewer than limit).  *)
(***************************************************************************)
C22_FallbackToTextLines ==
    (Previewed /\ Scored = <<>>) =>
        /\ ret.exc = "none"
        /\ Len(ret.lines) = Min(arg.limit, Len(arg.text_lines))
        /\ \A i \in 1..Len(ret.lines) : ret.lines[i] = arg.text_lines[i]

\* C22 witness: of three plain-text lines and a limit of 2 the first two are
\* returned
C22_Witness ==
    /\ Previewed
    /\ Scored = <<>>
    /\ arg.text_lines = <<"line3", "line1", "line2">>
    /\ arg.limit = 2
    /\ ret.lines = <<"line3", "line1">>

====
